---- MODULE Spec2Model ----
(***************************************************************************)
(* A model of thecratebackend: the prompt analysis -> query generation ->  *)
(* catalog search -> dedup/rank pipeline (gpt_utils.py), and the           *)
(* /recommend handlers that drive it (routes.py and app.py), with the      *)
(* /refresh, /clear-cache and /auth handlers, the sample scoring of app.py *)
(* and two request threads sharing the random module's generator.          *)
(*                                                                         *)
(* A Python str is a sequence of one-character strings, so that strip,     *)
(* lower, replace, `in` and concatenation are computed as Python computes  *)
(* them.  None is the empty tuple and a present optional value v is <<v>>. *)
(* A JSON value decoded from the completion text is a tagged record        *)
(* [k |-> kind, v |-> payload] with kind in str, int, list, null, dict.    *)
(***************************************************************************)
EXTENDS Integers, Sequences, FiniteSets, TLC

VARIABLES
    rng,            \* state of the process-wide generator of the random module
    hashSalt,       \* the process's str hash randomisation (PYTHONHASHSEED)
    pc,             \* where the scenario stands
    in_prompt,      \* the prompt argument
    in_seed,        \* the refresh_seed argument: None or Some(integer)
    in_analysis,    \* the analysis argument (Query Generator, Ranker)
    in_tracks,      \* the tracks argument (Ranker)
    runs,           \* what each completed call returned or raised, in call order
    env,            \* which handler serves, its configuration, the catalog
    request,        \* the JSON body of the request being served
    frame,          \* the handler's local variables
    response,       \* the response sent
    previous_results_cache  \* the module-level results cache of gpt_utils

handlerVars == <<env, request, frame, response>>

vars == <<rng, hashSalt, pc, in_prompt, in_seed, in_analysis, in_tracks, runs,
          env, request, frame, response, previous_results_cache>>

(***************************************************************************)
(* Python strings                                                          *)
(***************************************************************************)
Whitespace == {" ", "\t", "\n"}

\* str.lower() on ASCII letters
LowerTable ==
    ("A" :> "a") @@ ("B" :> "b") @@ ("C" :> "c") @@ ("D" :> "d") @@ ("E" :>
    "e") @@ ("F" :> "f") @@ ("G" :> "g") @@ ("H" :> "h") @@ ("I" :> "i") @@
    ("J" :> "j") @@ ("K" :> "k") @@ ("L" :> "l") @@ ("M" :> "m") @@ ("N" :>
    "n") @@ ("O" :> "o") @@ ("P" :> "p") @@ ("Q" :> "q") @@ ("R" :> "r") @@
    ("S" :> "s") @@ ("T" :> "t") @@ ("U" :> "u") @@ ("V" :> "v") @@ ("W" :>
    "w") @@ ("X" :> "x") @@ ("Y" :> "y") @@ ("Z" :> "z")

LowerChar(c) == IF c \in DOMAIN LowerTable THEN LowerTable[c] ELSE c

Lower(s) == [i \in 1..Len(s) |-> LowerChar(s[i])] \o <<>>

\* Python `a in b` for two strings
IsSubstr(a, b) == \E i \in 0..(Len(b) - Len(a)) : SubSeq(b, i + 1, i + Len(a)) = a

RECURSIVE LStrip(_)
LStrip(s) == IF s # <<>> /\ Head(s) \in Whitespace THEN LStrip(Tail(s)) ELSE s

RECURSIVE RStrip(_)
RStrip(s) ==
    IF s # <<>> /\ s[Len(s)] \in Whitespace THEN RStrip(SubSeq(s, 1, Len(s) - 1)) ELSE s

Strip(s) == RStrip(LStrip(s))

\* str.replace(old, new) for a non-empty old: leftmost, non-overlapping
RECURSIVE Replace(_, _, _)
Replace(s, old, new) ==
    IF Len(s) < Len(old) THEN s
    ELSE IF SubSeq(s, 1, Len(old)) = old
         THEN new \o Replace(SubSeq(s, Len(old) + 1, Len(s)), old, new)
         ELSE <<Head(s)>> \o Replace(Tail(s), old, new)

RECURSIVE WordLen(_)
WordLen(s) == IF s = <<>> \/ Head(s) \in Whitespace THEN 0 ELSE 1 + WordLen(Tail(s))

\* str.split() with no argument: the whitespace-separated words
RECURSIVE Split(_)
Split(s) ==
    LET u == LStrip(s)
    IN  IF u = <<>> THEN <<>>
        ELSE <<SubSeq(u, 1, WordLen(u))>> \o Split(SubSeq(u, WordLen(u) + 1, Len(u)))

(***************************************************************************)
(* Optional values, JSON values, function outcomes                         *)
(***************************************************************************)
None == <<>>
Some(x) == <<x>>

JStr(s) == [k |-> "str", v |-> s]
JList(l) == [k |-> "list", v |-> l]
JNull == [k |-> "null", v |-> <<>>]
JInt(n) == [k |-> "int", v |-> n]
JDict(f) == [k |-> "dict", v |-> f]
JStrList(l) == JList([i \in 1..Len(l) |-> JStr(l[i])])

\* Python truth value of a decoded JSON value
Truthy(j) ==
    CASE j.k = "str" -> j.v # <<>>
      [] j.k = "list" -> j.v # <<>>
      [] j.k = "dict" -> DOMAIN j.v # {}
      [] j.k = "int" -> j.v # 0
      [] OTHER -> FALSE

\* dict.get(key, default)
DictGet(d, key, default) == IF key \in DOMAIN d.v THEN d.v[key] ELSE default

\* what a call does: return a value, or raise
Return(x) == [exc |-> "", val |-> x]
Raise(e) == [exc |-> e, val |-> JNull]

(***************************************************************************)
(* The process-wide generator of Python's random module.  Its state is a   *)
(* number: random.seed(a) sets it from a alone, random.seed() sets it from *)
(* operating-system entropy, every draw is a function of the state and     *)
(* advances it.                                                            *)
(***************************************************************************)
MaxEntropy == 1
Entropy == 0..MaxEntropy

Abs(x) == IF x < 0 THEN 0 - x ELSE x
Seeded(a) == Abs(a) % 101
RngStep(st) == (st * 5 + 3) % 101
RandBelow(st, n) == ((st * 7 + (st \div 4) + 1) % 23) % n

(***************************************************************************)
(* gpt_utils.py: the Prompt Analyzer                                       *)
(***************************************************************************)
analysis_variations ==
    << <<"Y", "o", "u", " ", "a", "r", "e", " ", "a", " ", "m", "u", "s", "i", "c", " ", "h", "i", "s", "t", "o", "r", "i", "a", "n", " ", "f", "o", "c", "u", "s", "i", "n", "g", " ", "o", "n", " ", "t", "h", "e", " ", "P", "I", "O", "N", "E", "E", "R", "S", " ", "a", "n", "d", " ", "F", "O", "U", "N", "D", "E", "R", "S", " ", "o", "f", " ", "t", "h", "i", "s", " ", "s", "o", "u", "n", "d", ".">>,
       <<"Y", "o", "u", " ", "a", "r", "e", " ", "a", " ", "c", "o", "n", "t", "e", "m", "p", "o", "r", "a", "r", "y", " ", "m", "u", "s", "i", "c", " ", "c", "u", "r", "a", "t", "o", "r", " ", "f", "o", "c", "u", "s", "e", "d", " ", "o", "n", " ", "M", "O", "D", "E", "R", "N", " ", "A", "R", "T", "I", "S", "T", "S", " ", "a", "n", "d", " ", "C", "U", "R", "R", "E", "N", "T", " ", "S", "C", "E", "N", "E", "S", ".">>,
       <<"Y", "o", "u", " ", "a", "r", "e", " ", "a", "n", " ", "u", "n", "d", "e", "r", "g", "r", "o", "u", "n", "d", " ", "m", "u", "s", "i", "c", " ", "e", "x", "p", "e", "r", "t", " ", "f", "o", "c", "u", "s", "e", "d", " ", "o", "n", " ", "O", "B", "S", "C", "U", "R", "E", " ", "a", "n", "d", " ", "L", "E", "S", "S", "E", "R", "-", "K", "N", "O", "W", "N", " ", "a", "r", "t", "i", "s", "t", "s", ".">>,
       <<"Y", "o", "u", " ", "a", "r", "e", " ", "a", " ", "m", "u", "s", "i", "c", " ", "a", "n", "t", "h", "r", "o", "p", "o", "l", "o", "g", "i", "s", "t", " ", "s", "t", "u", "d", "y", "i", "n", "g", " ", "t", "h", "e", " ", "C", "U", "L", "T", "U", "R", "A", "L", " ", "a", "n", "d", " ", "R", "E", "G", "I", "O", "N", "A", "L", " ", "a", "s", "p", "e", "c", "t", "s", " ", "o", "f", " ", "t", "h", "i", "s", " ", "s", "o", "u", "n", "d", ".">>,
       <<"Y", "o", "u", " ", "a", "r", "e", " ", "a", " ", "r", "e", "c", "o", "r", "d", " ", "c", "o", "l", "l", "e", "c", "t", "o", "r", " ", "f", "o", "c", "u", "s", "e", "d", " ", "o", "n", " ", "V", "I", "N", "T", "A", "G", "E", " ", "a", "n", "d", " ", "C", "L", "A", "S", "S", "I", "C", " ", "r", "e", "p", "r", "e", "s", "e", "n", "t", "a", "t", "i", "o", "n", "s", " ", "o", "f", " ", "t", "h", "i", "s", " ", "s", "t", "y", "l", "e", ".">> >>

genre_keywords ==
    << [keyword |-> <<"b", "o", "o", "m", " ", "b", "a", "p">>, genre |-> <<"h", "i", "p", " ", "h", "o", "p">>, era |-> <<"9", "0", "s">>,
        pioneers |-> << <<"D", "J", " ", "P", "r", "e", "m", "i", "e", "r">>, <<"P", "e", "t", "e", " ", "R", "o", "c", "k">>, <<"L", "a", "r", "g", "e", " ", "P", "r", "o", "f", "e", "s", "s", "o", "r">> >>],
       [keyword |-> <<"j", "a", "z", "z">>, genre |-> <<"j", "a", "z", "z">>, era |-> <<"5", "0", "s", "-", "7", "0", "s">>,
        pioneers |-> << <<"M", "i", "l", "e", "s", " ", "D", "a", "v", "i", "s">>, <<"J", "o", "h", "n", " ", "C", "o", "l", "t", "r", "a", "n", "e">>, <<"B", "i", "l", "l", " ", "E", "v", "a", "n", "s">> >>],
       [keyword |-> <<"l", "o", "-", "f", "i">>, genre |-> <<"l", "o", "-", "f", "i">>, era |-> <<"2", "0", "1", "0", "s">>,
        pioneers |-> << <<"N", "u", "j", "a", "b", "e", "s">>, <<"J", " ", "D", "i", "l", "l", "a">>, <<"M", "a", "d", "l", "i", "b">> >>],
       [keyword |-> <<"t", "r", "a", "p">>, genre |-> <<"t", "r", "a", "p">>, era |-> <<"2", "0", "1", "0", "s">>,
        pioneers |-> << <<"M", "e", "t", "r", "o", " ", "B", "o", "o", "m", "i", "n">>, <<"S", "o", "u", "t", "h", "s", "i", "d", "e">>, <<"L", "e", "x", " ", "L", "u", "g", "e", "r">> >>],
       [keyword |-> <<"h", "o", "u", "s", "e">>, genre |-> <<"h", "o", "u", "s", "e">>, era |-> <<"8", "0", "s", "-", "9", "0", "s">>,
        pioneers |-> << <<"F", "r", "a", "n", "k", "i", "e", " ", "K", "n", "u", "c", "k", "l", "e", "s">>, <<"L", "a", "r", "r", "y", " ", "H", "e", "a", "r", "d">>, <<"M", "a", "r", "s", "h", "a", "l", "l", " ", "J", "e", "f", "f", "e", "r", "s", "o", "n">> >>],
       [keyword |-> <<"s", "o", "u", "l">>, genre |-> <<"s", "o", "u", "l">>, era |-> <<"6", "0", "s", "-", "7", "0", "s">>,
        pioneers |-> << <<"J", "a", "m", "e", "s", " ", "B", "r", "o", "w", "n">>, <<"M", "a", "r", "v", "i", "n", " ", "G", "a", "y", "e">>, <<"A", "r", "e", "t", "h", "a", " ", "F", "r", "a", "n", "k", "l", "i", "n">> >>],
       [keyword |-> <<"f", "u", "n", "k">>, genre |-> <<"f", "u", "n", "k">>, era |-> <<"7", "0", "s">>,
        pioneers |-> << <<"J", "a", "m", "e", "s", " ", "B", "r", "o", "w", "n">>, <<"P", "a", "r", "l", "i", "a", "m", "e", "n", "t", "-", "F", "u", "n", "k", "a", "d", "e", "l", "i", "c">>, <<"S", "l", "y", " ", "S", "t", "o", "n", "e">> >> ] >>

no_genre_detected ==
    [keyword |-> <<>>, genre |-> <<"v", "a", "r", "i", "o", "u", "s">>, era |-> <<"v", "a", "r", "i", "o", "u", "s">>,
     pioneers |-> << <<"V", "a", "r", "i", "o", "u", "s", " ", "A", "r", "t", "i", "s", "t", "s">> >>]

\* mutant of detected_info: the loop runs to the end of the table with no
\* break, so that the last matching entry is the one kept
detected_info_last_match(prompt) ==
    LET hits == {i \in 1..Len(genre_keywords) :
                    IsSubstr(genre_keywords[i].keyword, Lower(prompt))}
    IN  IF hits = {} THEN no_genre_detected
        ELSE genre_keywords[CHOOSE i \in hits : \A j \in hits : i >= j]

\* the loop over genre_keywords.items(): the first entry whose keyword is in the
\* lowercased prompt
detected_info(prompt) ==
    LET hits == {i \in 1..Len(genre_keywords) :
                    IsSubstr(genre_keywords[i].keyword, Lower(prompt))}
    IN  IF hits = {} THEN no_genre_detected
        ELSE genre_keywords[CHOOSE i \in hits : \A j \in hits : i <= j]

SchemaFields ==
    {"style_description", "pioneer_artists", "contemporary_artists", "classic_tracks",
     "key_albums", "related_styles", "instruments", "era", "mood_keywords",
     "avoid_terms", "analysis_approach"}

create_fallback_analysis(prompt, approach) ==
    LET info == detected_info(prompt)
    IN  IF prompt # <<>> /\ Split(prompt) = <<>>
        THEN Raise("IndexError")    \* prompt.split()[0] of a whitespace-only prompt
        ELSE Return(JDict(
            [style_description |->
                 JStr(info.genre \o <<" ", "s", "t", "y", "l", "e", " ", "m", "u", "s", "i", "c", " ", "f", "r", "o", "m", " ", "t", "h", "e", " ">> \o info.era \o <<" ", "e", "r", "a">>),
             pioneer_artists |-> JStrList(info.pioneers),
             contemporary_artists |-> JStrList(<< <<"M", "o", "d", "e", "r", "n", " ", "A", "r", "t", "i", "s", "t", " ", "1">>, <<"M", "o", "d", "e", "r", "n", " ", "A", "r", "t", "i", "s", "t", " ", "2">> >>),
             classic_tracks |-> JStrList(<< <<"C", "l", "a", "s", "s", "i", "c", " ">> \o info.genre \o <<" ", "t", "r", "a", "c", "k">> >>),
             key_albums |-> JStrList(<< <<"E", "s", "s", "e", "n", "t", "i", "a", "l", " ">> \o info.genre \o <<" ", "a", "l", "b", "u", "m">> >>),
             related_styles |-> JStrList(<< info.genre >>),
             instruments |-> JStrList(<< <<"d", "r", "u", "m", "s">>, <<"b", "a", "s", "s">>, <<"s", "a", "m", "p", "l", "e", "s">> >>),
             era |-> JStr(info.era),
             mood_keywords |-> JStrList(<< <<"r", "h", "y", "t", "h", "m", "i", "c">>, <<"g", "r", "o", "o", "v", "y">> >>),
             avoid_terms |-> IF prompt # <<>> THEN JStrList(<< Split(prompt)[1] >>)
                             ELSE JList(<<>>),
             analysis_approach |-> JStr(approach)]))

\* lines 50-56: the persona, drawn from the generator seeded with refresh_seed
analysis_approach_of(refresh_seed) ==
    IF refresh_seed # None
    THEN analysis_variations[RandBelow(Seeded(refresh_seed[1]), Len(analysis_variations)) + 1]
    ELSE analysis_variations[1]

\* `completion` is what the completion call and the decoding of its text come to:
\*   transport_error  client.chat.completions.create raises
\*   no_content       message.content is None, so .strip() raises
\*   bad_json         json.loads raises JSONDecodeError
\*   json             json.loads returns completion.value
get_prompt_analysis(prompt, refresh_seed, completion) ==
    LET analysis_approach == analysis_approach_of(refresh_seed)
    IN  CASE completion.kind = "json" -> Return(completion.value)
          [] completion.kind = "bad_json" ->
                 create_fallback_analysis(prompt, analysis_approach)
          [] OTHER -> create_fallback_analysis(prompt, analysis_approach)

(***************************************************************************)
(* gpt_utils.py: the Query Generator                                       *)
(***************************************************************************)
Min(a, b) == IF a < b THEN a ELSE b

\* x[:n] for a decoded list or string; the elements a for-loop then visits
CanSlice(j) == j.k \in {"list", "str"}
Slice(j, n) ==
    IF j.k = "list" THEN SubSeq(j.v, 1, Min(n, Len(j.v)))
    ELSE [i \in 1..Min(n, Len(j.v)) |-> JStr(<<j.v[i]>>)]

\* f'{x}' for a decoded string or null
Fmt(j) == CASE j.k = "str" -> j.v
            [] j.k = "null" -> <<"N", "o", "n", "e">>

RECURSIVE Concat(_)
Concat(ss) == IF ss = <<>> THEN <<>> ELSE Head(ss) \o Concat(Tail(ss))

\* mutant of DedupKeepFirst: the dict.fromkeys pass left out
DedupKeepFirst_left_out(qs) == qs

\* list(dict.fromkeys(qs)): first occurrences, in order
RECURSIVE DedupKeepFirst(_)
DedupKeepFirst(qs) ==
    IF qs = <<>> THEN <<>>
    ELSE LET n == Len(qs)
             front == DedupKeepFirst(SubSeq(qs, 1, n - 1))
         IN  IF \E i \in 1..(n - 1) : qs[i] = qs[n] THEN front ELSE Append(front, qs[n])

\* [q.strip() for q in queries if q and q.strip()]
RECURSIVE StripNonBlank(_)
StripNonBlank(qs) ==
    IF qs = <<>> THEN <<>>
    ELSE IF Head(qs) # <<>> /\ Strip(Head(qs)) # <<>>
         THEN <<Strip(Head(qs))>> \o StripNonBlank(Tail(qs))
         ELSE StripNonBlank(Tail(qs))

\* lines 161-163
pioneer_queries(artists) ==
    Concat([i \in 1..Len(artists) |->
        IF Truthy(artists[i]) /\ Fmt(artists[i]) # <<"V", "a", "r", "i", "o", "u", "s", " ", "A", "r", "t", "i", "s", "t", "s">>
        THEN << <<"a", "r", "t", "i", "s", "t", ":", "\"">> \o Fmt(artists[i]) \o <<"\"">> >> ELSE <<>>])

\* lines 165-167
contemporary_queries(artists) ==
    Concat([i \in 1..Len(artists) |->
        IF /\ Truthy(artists[i])
           /\ Fmt(artists[i]) # <<"M", "o", "d", "e", "r", "n", " ", "A", "r", "t", "i", "s", "t", " ", "1">>
           /\ Fmt(artists[i]) # <<"M", "o", "d", "e", "r", "n", " ", "A", "r", "t", "i", "s", "t", " ", "2">>
        THEN << <<"a", "r", "t", "i", "s", "t", ":", "\"">> \o Fmt(artists[i]) \o <<"\"">> >> ELSE <<>>])

\* lines 170-174
style_queries(styles, era) ==
    Concat([i \in 1..Len(styles) |->
        IF Truthy(styles[i])
        THEN << Fmt(styles[i]) >> \o
             (IF Truthy(era) THEN << Fmt(era) \o <<" ">> \o Fmt(styles[i]) >> ELSE <<>>)
        ELSE <<>>])

\* lines 177-179
era_queries(era) ==
    IF Truthy(era) /\ Fmt(era) # <<"v", "a", "r", "i", "o", "u", "s">>
    THEN << Fmt(era) \o <<" ", "m", "u", "s", "i", "c">>, Fmt(era) \o <<" ", "i", "n", "s", "t", "r", "u", "m", "e", "n", "t", "a", "l">> >> ELSE <<>>

\* lines 182-185
prompt_queries(prompt) ==
    << prompt >> \o
    (IF IsSubstr(<<"d", "r", "u", "m", "s">>, Lower(prompt))
     THEN << Replace(prompt, <<"d", "r", "u", "m", "s">>, <<"b", "e", "a", "t", "s">>), Replace(prompt, <<"d", "r", "u", "m", "s">>, <<"p", "e", "r", "c", "u", "s", "s", "i", "o", "n">>) >>
     ELSE <<>>)

QueryLimit == 10

\* mutant of built_queries: the prompt and its variants are appended first
built_queries_prompt_first(prompt, analysis) ==
    LET era == DictGet(analysis, "era", JStr(<<>>))
    IN  prompt_queries(prompt)
        \o pioneer_queries(Slice(DictGet(analysis, "pioneer_artists", JList(<<>>)), 3))
        \o contemporary_queries(Slice(DictGet(analysis, "contemporary_artists", JList(<<>>)), 2))
        \o style_queries(Slice(DictGet(analysis, "related_styles", JList(<<>>)), 2), era)
        \o era_queries(era)

\* the queries list as built by lines 158-185, before stripping and dedup
built_queries(prompt, analysis) ==
    LET era == DictGet(analysis, "era", JStr(<<>>))
    IN  pioneer_queries(Slice(DictGet(analysis, "pioneer_artists", JList(<<>>)), 3))
        \o contemporary_queries(Slice(DictGet(analysis, "contemporary_artists", JList(<<>>)), 2))
        \o style_queries(Slice(DictGet(analysis, "related_styles", JList(<<>>)), 2), era)
        \o era_queries(era)
        \o prompt_queries(prompt)

generate_artist_focused_queries(prompt, analysis, refresh_seed) ==
    IF analysis.k # "dict" THEN Raise("AttributeError")
    ELSE IF \E f \in {"pioneer_artists", "contemporary_artists", "related_styles"} :
                ~CanSlice(DictGet(analysis, f, JList(<<>>)))
    THEN Raise("TypeError")
    ELSE LET queries == DedupKeepFirst(StripNonBlank(built_queries(prompt, analysis)))
         IN  Return(SubSeq(queries, 1, Min(QueryLimit, Len(queries))))

DiscoveryLimit == 5

generate_discovery_queries(analysis, refresh_seed) ==
    IF analysis.k # "dict" THEN Raise("AttributeError")
    ELSE IF ~CanSlice(DictGet(analysis, "related_styles", JList(<<>>)))
    THEN Raise("TypeError")
    ELSE LET styles == Slice(DictGet(analysis, "related_styles", JList(<<>>)), 2)
             era == DictGet(analysis, "era", JStr(<<>>))
             discovery_queries ==
                 Concat([i \in 1..Len(styles) |->
                     IF Truthy(styles[i])
                     THEN << Fmt(styles[i]) \o <<" ", "i", "n", "s", "t", "r", "u", "m", "e", "n", "t", "a", "l">>,
                             Fmt(styles[i]) \o <<" ", "s", "a", "m", "p", "l", "e", "s">> >>
                     ELSE <<>>])
                 \o (IF Truthy(era) /\ Fmt(era) # <<"v", "a", "r", "i", "o", "u", "s">>
                     THEN << <<"v", "i", "n", "t", "a", "g", "e", " ">> \o Fmt(era), Fmt(era) \o <<" ", "c", "l", "a", "s", "s", "i", "c", "s">> >>
                     ELSE <<>>)
         IN  Return(SubSeq(discovery_queries, 1,
                           Min(DiscoveryLimit, Len(discovery_queries))))

Swap(x, i, j) == [x EXCEPT ![i] = x[j], ![j] = x[i]]

\* random.shuffle(x) from generator state st: for i = len-1 down to 1, swap
\* x[i] with x[randbelow(i+1)] (0-based), one draw per step
RECURSIVE ShuffleFrom(_, _, _)
ShuffleFrom(x, i, st) ==
    IF i < 1 THEN x
    ELSE ShuffleFrom(Swap(x, i + 1, RandBelow(st, i + 1) + 1), i - 1, RngStep(st))

\* mutant of Shuffle: the shuffle draws from the generator as it stands,
\* line 239 (random.seed(refresh_seed)) left out
Shuffle_not_seeded(x, st) == ShuffleFrom(x, Len(x) - 1, rng)

Shuffle(x, st) == ShuffleFrom(x, Len(x) - 1, st)

\* the prints of lines 225-228 raise on an analysis that is no dict, whose
\* style_description cannot be sliced, or whose artist lists cannot be joined
CanJoin(j) == CanSlice(j) /\ \A i \in 1..Len(Slice(j, 3)) : Slice(j, 3)[i].k = "str"
prints_raise(analysis) ==
    IF analysis.k # "dict" THEN "AttributeError"
    ELSE IF \/ ~CanSlice(DictGet(analysis, "style_description", JStr(<<>>)))
            \/ ~CanJoin(DictGet(analysis, "pioneer_artists", JList(<<>>)))
            \/ ~CanJoin(DictGet(analysis, "contemporary_artists", JList(<<>>)))
    THEN "TypeError"
    ELSE ""

\* get_ai_powered_recommendations(prompt, refresh_seed) when the clock reads
\* `now` and the completion call comes to `completion`.  Returns the triple
\* (analysis, all_queries, refresh_seed).
get_ai_powered_recommendations(prompt, refresh_seed_arg, now, completion) ==
    LET refresh_seed == IF refresh_seed_arg = None THEN Some(now) ELSE refresh_seed_arg
        got == get_prompt_analysis(prompt, refresh_seed, completion)
        analysis == got.val
        main == generate_artist_focused_queries(prompt, analysis, refresh_seed)
        discovery == generate_discovery_queries(analysis, refresh_seed)
        all_queries == main.val \o discovery.val
    IN  IF got.exc # "" THEN Raise(got.exc)
        ELSE IF prints_raise(analysis) # "" THEN Raise(prints_raise(analysis))
        ELSE IF main.exc # "" THEN Raise(main.exc)
        ELSE IF discovery.exc # "" THEN Raise(discovery.exc)
        ELSE Return([analysis |-> analysis,
                     all_queries |-> IF refresh_seed[1] # 0
                                     THEN Shuffle(all_queries, Seeded(refresh_seed[1]))
                                     ELSE all_queries,
                     main_queries |-> main.val,
                     discovery_queries |-> discovery.val,
                     refresh_seed |-> refresh_seed])


(***************************************************************************)
(* gpt_utils.py: the Ranker / Deduplicator.  A track is a dict from a      *)
(* subset of the keys id, title, artist, release_date to strings.  The     *)
(* Ranker moves track objects around, so its stages are modelled on the    *)
(* positions of the tracks in the input list.                              *)
(***************************************************************************)
TrackGet(track, key, default) == IF key \in DOMAIN track THEN track[key] ELSE default

Digit == <<"0", "1", "2", "3", "4", "5", "6", "7", "8", "9">>
IsDigit(c) == \E d \in 1..10 : Digit[d] = c
DigitVal(c) == (CHOOSE d \in 1..10 : Digit[d] = c) - 1

\* int(s) of a string of ASCII digits
RECURSIVE ParseInt(_)
ParseInt(s) == IF s = <<>> THEN 0 ELSE 10 * ParseInt(SubSeq(s, 1, Len(s) - 1)) + DigitVal(s[Len(s)])

\* int(s) raises ValueError unless s, stripped, is a number; signs and
\* underscores, which int() also accepts, leave at most three digits in a
\* four-character slice and are treated as the ValueError they score like
IntParses(s) == Strip(s) # <<>> /\ \A i \in 1..Len(Strip(s)) : IsDigit(Strip(s)[i])

Alphabet == <<" ", "a", "b", "c", "d", "e", "f", "g", "h", "i", "j", "k", "l", "m", "n", "o", "p", "q", "r", "s", "t", "u", "v", "w", "x", "y", "z", "A", "B", "C", "D", "E", "F", "G", "H", "I", "J", "K", "L", "M", "N", "O", "P", "Q", "R", "S", "T", "U", "V", "W", "X", "Y", "Z", "0", "1", "2", "3", "4", "5", "6", "7", "8", "9", "-", ":", "\"", "'", ".", ",", "&", "$", "_">>
Ord(c) == CHOOSE i \in 1..Len(Alphabet) : Alphabet[i] = c

\* hash(s) of a str: 0 for the empty string, else a signed number fixed by
\* the string and the process's hash salt
RECURSIVE HashFrom(_, _)
HashFrom(h, s) == IF s = <<>> THEN h ELSE HashFrom((h * 33 + Ord(Head(s))) % 1009, Tail(s))
StrHash(s) == IF s = <<>> THEN 0 ELSE HashFrom(hashSalt + 7, s) - 504

\* lines 285-297: the positions kept by the dedup loop over tracks[1..n],
\* and the seen_ids set it leaves
RECURSIVE dedup_loop(_, _)
dedup_loop(tracks, n) ==
    IF n = 0 THEN [seen_ids |-> {}, unique |-> <<>>]
    ELSE LET before == dedup_loop(tracks, n - 1)
             track == tracks[n]
             track_id == TrackGet(track, "id", <<>>)
             track_key == TrackGet(track, "title", <<>>) \o <<"-">> \o TrackGet(track, "artist", <<>>)
         IN  IF track_id # <<>> /\ track_id \notin before.seen_ids
             THEN [seen_ids |-> before.seen_ids \cup {track_id},
                   unique |-> Append(before.unique, n)]
             ELSE IF track_id = <<>> /\ track_key \notin before.seen_ids
             THEN [seen_ids |-> before.seen_ids \cup {track_key},
                   unique |-> Append(before.unique, n)]
             ELSE before

\* mutant of unique_tracks: a track without an id is "added anyway", with no
\* check of its title and artist
RECURSIVE dedup_loop_ids_only(_, _)
dedup_loop_ids_only(tracks, n) ==
    IF n = 0 THEN [seen_ids |-> {}, unique |-> <<>>]
    ELSE LET before == dedup_loop_ids_only(tracks, n - 1)
             track_id == TrackGet(tracks[n], "id", <<>>)
         IN  IF track_id # <<>> /\ track_id \in before.seen_ids THEN before
             ELSE [seen_ids |-> before.seen_ids \cup {track_id},
                   unique |-> Append(before.unique, n)]

unique_tracks_ids_only(tracks) == dedup_loop_ids_only(tracks, Len(tracks)).unique

unique_tracks(tracks) == dedup_loop(tracks, Len(tracks)).unique

\* lines 306-313
artist_score(track, analysis) ==
    LET artist == Lower(TrackGet(track, "artist", <<>>))
        pioneer_artists == Slice(DictGet(analysis, "pioneer_artists", JList(<<>>)), 1000)
        contemporary_artists == Slice(DictGet(analysis, "contemporary_artists", JList(<<>>)), 1000)
    IN  IF \E i \in 1..Len(pioneer_artists) : IsSubstr(Lower(pioneer_artists[i].v), artist)
        THEN 50
        ELSE IF \E i \in 1..Len(contemporary_artists) :
                    IsSubstr(Lower(contemporary_artists[i].v), artist)
        THEN 30
        ELSE 0

\* lines 316-320
RECURSIVE mood_score(_, _)
mood_score(title, mood_keywords) ==
    IF mood_keywords = <<>> THEN 0
    ELSE (IF IsSubstr(Lower(Head(mood_keywords).v), title) THEN 10 ELSE 0)
         + mood_score(title, Tail(mood_keywords))

\* mutant of era_score: each decade's upper bound one year late
era_score_late_bound(track, analysis) ==
    LET era == DictGet(analysis, "era", JStr(<<>>))
        release_date == TrackGet(track, "release_date", <<>>)
        year4 == SubSeq(release_date, 1, Min(4, Len(release_date)))
        track_year == ParseInt(Strip(year4))
    IN  IF ~(Truthy(era) /\ release_date # <<>>) THEN 0
        ELSE IF ~IntParses(year4) THEN 0
        ELSE IF IsSubstr(<<"9", "0", "s">>, era.v) /\ 1990 <= track_year /\ track_year <= 2000 THEN 25
        ELSE IF IsSubstr(<<"8", "0", "s">>, era.v) /\ 1980 <= track_year /\ track_year <= 1990 THEN 25
        ELSE IF IsSubstr(<<"7", "0", "s">>, era.v) /\ 1970 <= track_year /\ track_year <= 1980 THEN 25
        ELSE 0

\* lines 323-334
era_score(track, analysis) ==
    LET era == DictGet(analysis, "era", JStr(<<>>))
        release_date == TrackGet(track, "release_date", <<>>)
        year4 == SubSeq(release_date, 1, Min(4, Len(release_date)))
        track_year == ParseInt(Strip(year4))
    IN  IF ~(Truthy(era) /\ release_date # <<>>) THEN 0
        ELSE IF ~IntParses(year4) THEN 0
        ELSE IF IsSubstr(<<"9", "0", "s">>, era.v) /\ 1990 <= track_year /\ track_year <= 1999 THEN 25
        ELSE IF IsSubstr(<<"8", "0", "s">>, era.v) /\ 1980 <= track_year /\ track_year <= 1989 THEN 25
        ELSE IF IsSubstr(<<"7", "0", "s">>, era.v) /\ 1970 <= track_year /\ track_year <= 1979 THEN 25
        ELSE 0

\* track.get('id', track.get('title', ''))
jitter_key(track) ==
    IF "id" \in DOMAIN track THEN track["id"] ELSE TrackGet(track, "title", <<>>)

\* lines 337-340: seed the generator from refresh_seed and the track, draw
\* randint(0, 20)
jitter(track, refresh_seed) ==
    IF refresh_seed # None /\ refresh_seed[1] # 0
    THEN RandBelow(Seeded(refresh_seed[1] + StrHash(jitter_key(track))), 21)
    ELSE 0

rank_track(track, analysis, refresh_seed) ==
    artist_score(track, analysis)
    + mood_score(Lower(TrackGet(track, "title", <<>>)),
                 Slice(DictGet(analysis, "mood_keywords", JList(<<>>)), 1000))
    + era_score(track, analysis)
    + jitter(track, refresh_seed)

\* what makes rank_track raise: an analysis that is no dict, a list field
\* that cannot be iterated, an element without .lower()
CanLowerAll(j) == CanSlice(j) /\ \A i \in 1..Len(Slice(j, 1000)) : Slice(j, 1000)[i].k = "str"
rank_track_raises(analysis) ==
    IF analysis.k # "dict" THEN "AttributeError"
    ELSE IF \E f \in {"pioneer_artists", "contemporary_artists", "mood_keywords"} :
                ~CanSlice(DictGet(analysis, f, JList(<<>>)))
    THEN "TypeError"
    ELSE IF \E f \in {"pioneer_artists", "contemporary_artists", "mood_keywords"} :
                ~CanLowerAll(DictGet(analysis, f, JList(<<>>)))
    THEN "AttributeError"
    ELSE ""

\* mutant of sorted_insert: a sort that is ascending and then reversed, so
\* equal scores come out in reverse input order
sorted_insert_reversed_ties(placed, i, score) ==
    LET ahead == {p \in 1..Len(placed) : score[placed[p]] > score[i]}
        k == IF ahead = {} THEN 0 ELSE CHOOSE p \in ahead : \A q \in ahead : q <= p
    IN  SubSeq(placed, 1, k) \o <<i>> \o SubSeq(placed, k + 1, Len(placed))

\* sorted(xs, key=..., reverse=True): a stable sort, so a position goes
\* behind every position already placed whose score is at least its own
sorted_insert(placed, i, score) ==
    LET ahead == {p \in 1..Len(placed) : score[placed[p]] >= score[i]}
        k == IF ahead = {} THEN 0 ELSE CHOOSE p \in ahead : \A q \in ahead : q <= p
    IN  SubSeq(placed, 1, k) \o <<i>> \o SubSeq(placed, k + 1, Len(placed))

RECURSIVE sorted_reverse(_, _)
sorted_reverse(xs, score) ==
    IF xs = <<>> THEN <<>>
    ELSE sorted_insert(sorted_reverse(SubSeq(xs, 1, Len(xs) - 1), score), xs[Len(xs)], score)

\* the key rank_track gives each position that survived dedup (computed once
\* per element, as sorted does), -1 at the positions dropped
key_scores(tracks, unique, analysis, refresh_seed) ==
    [n \in 1..Len(tracks) |->
        IF \E p \in 1..Len(unique) : unique[p] = n
        THEN rank_track(tracks[n], analysis, refresh_seed) ELSE -1] \o <<>>

RankLimit == 20

\* ai_filter_and_rank_tracks: the positions returned, in order, with the
\* score rank_track gave each position that survived dedup
ai_filter_and_rank_tracks(tracks, original_prompt, analysis, refresh_seed) ==
    IF tracks = <<>> THEN Return([order |-> <<>>, score |-> <<>>])
    ELSE IF rank_track_raises(analysis) # "" THEN Raise(rank_track_raises(analysis))
    ELSE LET unique == unique_tracks(tracks)
             score == key_scores(tracks, unique, analysis, refresh_seed)
             ranked_tracks == sorted_reverse(unique, score)
         IN  Return([order |-> SubSeq(ranked_tracks, 1, Min(RankLimit, Len(ranked_tracks))),
                     score |-> score])

\* no request is being served: the stage scenarios
NoRequest ==
    /\ env = [handler |-> "", api_key |-> TRUE, catalog |-> ""]
    /\ request = JNull
    /\ frame = <<>>
    /\ response = <<>>
    /\ previous_results_cache = <<>>

(***************************************************************************)
(* Inputs                                                                  *)
(***************************************************************************)
MaxRuns == 2

SeedArgs == {None, Some(0), Some(1), Some(42), Some(-7)}
ClockValues == {1700000000, 1700000001}

A_boom ==
    JDict([style_description |-> JStr(<<"g", "r", "i", "t", "t", "y", " ", "9", "0", "s", " ", "h", "i", "p", " ", "h", "o", "p">>),
           pioneer_artists |-> JStrList(<< <<"D", "J", " ", "P", "r", "e", "m", "i", "e", "r">>, <<"P", "e", "t", "e", " ", "R", "o", "c", "k">>,
                                           <<"L", "a", "r", "g", "e", " ", "P", "r", "o", "f", "e", "s", "s", "o", "r">>, <<"Q", "-", "T", "i", "p">> >>),
           contemporary_artists |-> JStrList(<< <<"G", "r", "i", "s", "e", "l", "d", "a">>, <<"M", "o", "d", "e", "r", "n", " ", "A", "r", "t", "i", "s", "t", " ", "1">>,
                                                <<"J", "o", "e", "y", " ", "B", "a", "d", "a", "$", "$">> >>),
           classic_tracks |-> JStrList(<< <<"T", ".", "R", ".", "O", ".", "Y", ".">> >>),
           key_albums |-> JStrList(<< <<"I", "l", "l", "m", "a", "t", "i", "c">> >>),
           related_styles |-> JStrList(<< <<"b", "o", "o", "m", " ", "b", "a", "p">>, <<"j", "a", "z", "z", " ", "r", "a", "p">>, <<"e", "a", "s", "t", " ", "c", "o", "a", "s", "t">> >>),
           instruments |-> JStrList(<< <<"d", "r", "u", "m", "s">> >>),
           era |-> JStr(<<"9", "0", "s">>),
           mood_keywords |-> JStrList(<< <<"r", "a", "w">>, <<"D", "u", "s", "t", "y">> >>),
           avoid_terms |-> JList(<<>>),
           analysis_approach |-> JStr(<<"Y", "o", "u", " ", "a", "r", "e", " ", "a", " ", "m", "u", "s", "i", "c", " ", "h", "i", "s", "t", "o", "r", "i", "a", "n", " ", "f", "o", "c", "u", "s", "i", "n", "g", " ", "o", "n", " ", "t", "h", "e", " ", "P", "I", "O", "N", "E", "E", "R", "S", " ", "a", "n", "d", " ", "F", "O", "U", "N", "D", "E", "R", "S", " ", "o", "f", " ", "t", "h", "i", "s", " ", "s", "o", "u", "n", "d">>)])

\* blanks, placeholders and repeats: what stripping and dedup are there for
A_messy ==
    JDict([style_description |-> JStr(<<>>),
           pioneer_artists |-> JStrList(<< <<" ", "x">>, <<"N", "a", "s">>, <<"A", "Z">> >>),
           contemporary_artists |-> JStrList(<< <<"N", "a", "s">>, <<"J", "a", "y">> >>),
           classic_tracks |-> JList(<<>>),
           key_albums |-> JList(<<>>),
           related_styles |-> JStrList(<< <<"m", "u", "s", "i", "c">>, <<" ">> >>),
           instruments |-> JList(<<>>),
           era |-> JStr(<<"8", "0", "s", "-", "9", "0", "s">>),
           mood_keywords |-> JStrList(<< <<>>, <<"r", "a", "w">>, <<"r", "a", "w">> >>),
           avoid_terms |-> JList(<<>>),
           analysis_approach |-> JStr(<<"d", "e", "f", "a", "u", "l", "t">>)])

\* a JSON object that lacks most of the schema
A_partial ==
    JDict([era |-> JStr(<<"7", "0", "s">>),
           pioneer_artists |-> JStr(<<"a", "b">>),
           mood_keywords |-> JStrList(<< <<"f", "u", "n", "k", "y">> >>)])

\* a JSON object with nulls
A_nulls ==
    JDict([style_description |-> JStr(<<"x">>),
           pioneer_artists |-> JStrList(<< <<"N", "a", "s">> >>),
           contemporary_artists |-> JList(<< JNull, JStr(<<"N", "a", "s">>) >>),
           related_styles |-> JStrList(<< <<"r", "a", "p">> >>),
           era |-> JNull])

A_null_list == JDict([pioneer_artists |-> JNull, era |-> JStr(<<"9", "0", "s">>)])

\* valid JSON that is no object
A_not_dict == JStrList(<< <<"N", "a", "s">> >>)

DecodedValues == {A_boom, A_messy, A_partial, A_nulls, A_null_list, A_not_dict}

Completions ==
    {[kind |-> k, value |-> JNull] : k \in {"transport_error", "no_content", "bad_json"}}
    \cup {[kind |-> "json", value |-> v] : v \in DecodedValues}

Prompts ==
    { <<>>, <<" ", " ", " ">>, <<"9", "0", "s", " ", "b", "o", "o", "m", " ", "b", "a", "p", " ", "d", "r", "u", "m", "s">>, <<"l", "o", "-", "f", "i", " ", "j", "a", "z", "z", " ", "p", "i", "a", "n", "o">>, <<"d", "a", "r", "k", " ", "a", "m", "b", "i", "e", "n", "t">>,
      <<" ", "F", "u", "n", "k", "y", " ", "S", "O", "U", "L", " ", "D", "r", "u", "m", "s", " ">>, <<"d", "r", "u", "m", "s", " ", "d", "r", "u", "m", "s">> }

(***************************************************************************)
(* SpecAnalyzer: calls of get_prompt_analysis                               *)
(***************************************************************************)
InitAnalyzer ==
    /\ rng \in Entropy
    /\ hashSalt = 0
    /\ pc = "analyzer"
    /\ in_prompt \in Prompts
    /\ in_seed \in SeedArgs
    /\ in_analysis = JNull
    /\ in_tracks = <<>>
    /\ runs = <<>>
    /\ NoRequest

\* one call; random.seed() on line 54 leaves the generator in a state drawn
\* from entropy
AnalyzerCall ==
    /\ pc = "analyzer"
    /\ Len(runs) < MaxRuns
    /\ \E completion \in Completions :
          runs' = Append(runs, [fn |-> "get_prompt_analysis",
                                completion |-> completion.kind,
                                ret |-> get_prompt_analysis(in_prompt, in_seed, completion)])
    /\ rng' \in (IF in_seed # None THEN Entropy ELSE {rng})
    /\ UNCHANGED <<hashSalt, previous_results_cache, pc, in_prompt, in_seed, in_analysis, in_tracks,
                 env, request, frame, response>>

NextAnalyzer == AnalyzerCall

SpecAnalyzer == InitAnalyzer /\ [][NextAnalyzer]_vars

\* C1: get_prompt_analysis returns a value for every prompt string, every
\* optional refresh_seed and every outcome of the completion call; it never
\* raises to its caller.
C1_NeverRaises ==
    pc = "analyzer" => \A i \in 1..Len(runs) : runs[i].ret.exc = ""

IsStrList(j) == j.k = "list" /\ \A i \in 1..Len(j.v) : j.v[i].k = "str"

FullyPopulated(a) ==
    /\ a.k = "dict"
    /\ SchemaFields \subseteq DOMAIN a.v
    /\ IsStrList(a.v["pioneer_artists"])
    /\ IsStrList(a.v["contemporary_artists"])
    /\ a.v["era"].k = "str"

\* C2: every analysis get_prompt_analysis returns, parsed or fallback, holds
\* all schema fields, with pioneer_artists and contemporary_artists lists of
\* strings and era a non-null string.
C2_AlwaysFullyPopulated ==
    pc = "analyzer" =>
        \A i \in 1..Len(runs) : runs[i].ret.exc = "" => FullyPopulated(runs[i].ret.val)

\* the calls that ended in the fallback analysis: the completion call or the
\* decoding of its text raised, and create_fallback_analysis returned
FallbackRuns ==
    {i \in 1..Len(runs) : runs[i].completion # "json" /\ runs[i].ret.exc = ""}

\* whether the table's entry g is the first one whose keyword is in p
FirstMatch(g, p) ==
    /\ IsSubstr(genre_keywords[g].keyword, p)
    /\ \A h \in 1..(g - 1) : ~IsSubstr(genre_keywords[h].keyword, p)

\* C11: the fallback analysis carries the era and the pioneers of the first
\* entry of the genre keyword table (boom bap, jazz, lo-fi, trap, house, soul,
\* funk) whose keyword is a substring of the lowercased prompt, and era
\* 'various' with pioneers ['Various Artists'] when no keyword matches; for
\* '90s boom bap drums' that is era '90s' and pioneers DJ Premier, Pete Rock,
\* Large Professor.
C11_FallbackIsFirstKeywordMatch ==
    pc = "analyzer" =>
        \A i \in FallbackRuns :
            LET a == runs[i].ret.val.v
                p == Lower(in_prompt)
            IN  /\ [g \in 1..Len(genre_keywords) |-> genre_keywords[g].keyword]
                       = << <<"b", "o", "o", "m", " ", "b", "a", "p">>, <<"j", "a", "z", "z">>, <<"l", "o", "-", "f", "i">>, <<"t", "r", "a", "p">>, <<"h", "o", "u", "s", "e">>,
                            <<"s", "o", "u", "l">>, <<"f", "u", "n", "k">> >>
                /\ \A g \in 1..Len(genre_keywords) :
                       FirstMatch(g, p) =>
                           /\ a.era = JStr(genre_keywords[g].era)
                           /\ a.pioneer_artists = JStrList(genre_keywords[g].pioneers)
                /\ (\A g \in 1..Len(genre_keywords) : ~FirstMatch(g, p)) =>
                       /\ a.era = JStr(<<"v", "a", "r", "i", "o", "u", "s">>)
                       /\ a.pioneer_artists = JStrList(<< <<"V", "a", "r", "i", "o", "u", "s", " ", "A", "r", "t", "i", "s", "t", "s">> >>)
                /\ in_prompt = <<"9", "0", "s", " ", "b", "o", "o", "m", " ", "b", "a", "p", " ", "d", "r", "u", "m", "s">> =>
                       /\ a.era = JStr(<<"9", "0", "s">>)
                       /\ a.pioneer_artists =
                              JStrList(<< <<"D", "J", " ", "P", "r", "e", "m", "i", "e", "r">>, <<"P", "e", "t", "e", " ", "R", "o", "c", "k">>, <<"L", "a", "r", "g", "e", " ", "P", "r", "o", "f", "e", "s", "s", "o", "r">> >>)

\* a fallback on ' Funky SOUL Drums ', where two keywords match once the
\* prompt is lowercased (soul, funk) and the earlier one, soul, was taken
C11_Witness ==
    /\ pc = "analyzer"
    /\ in_prompt = <<" ", "F", "u", "n", "k", "y", " ", "S", "O", "U", "L", " ", "D", "r", "u", "m", "s", " ">>
    /\ \E i \in FallbackRuns : runs[i].ret.val.v.era = JStr(<<"6", "0", "s", "-", "7", "0", "s">>)


(***************************************************************************)
(* SpecQueries: calls of generate_artist_focused_queries and of            *)
(* get_ai_powered_recommendations on one (prompt, analysis, refresh_seed)  *)
(***************************************************************************)
FallbackAnalyses ==
    {create_fallback_analysis(p, <<"d", "e", "f", "a", "u", "l", "t">>).val : p \in {<<"d", "a", "r", "k", " ", "a", "m", "b", "i", "e", "n", "t">>, <<"s", "o", "u", "l", " ", "a", "n", "d", " ", "f", "u", "n", "k">>}}

QueryAnalyses == DecodedValues \cup FallbackAnalyses

RunsOf(fn) == Cardinality({i \in 1..Len(runs) : runs[i].fn = fn})

InitQueries ==
    /\ rng \in Entropy
    /\ hashSalt = 0
    /\ pc = "queries"
    /\ in_prompt \in Prompts
    /\ in_seed \in SeedArgs
    /\ in_analysis \in QueryAnalyses
    /\ in_tracks = <<>>
    /\ runs = <<>>
    /\ NoRequest

GenerateQueriesCall ==
    /\ pc = "queries"
    /\ RunsOf("generate_artist_focused_queries") < MaxRuns
    /\ runs' = Append(runs,
                  [fn |-> "generate_artist_focused_queries",
                   ret |-> generate_artist_focused_queries(in_prompt, in_analysis, in_seed)])
    /\ UNCHANGED <<rng, hashSalt, previous_results_cache, pc, in_prompt, in_seed, in_analysis, in_tracks,
                 env, request, frame, response>>

\* the completion call answers with in_analysis; the refresh_seed is never
\* None past line 217, so lines 52-54 always reseed the generator
RecommendationsCall ==
    /\ pc \in {"queries", "stages"}
    /\ RunsOf("get_ai_powered_recommendations") < MaxRuns
    /\ \E now \in ClockValues :
          runs' = Append(runs,
                     [fn |-> "get_ai_powered_recommendations",
                      ret |-> get_ai_powered_recommendations(
                                  in_prompt, in_seed, now,
                                  [kind |-> "json", value |-> in_analysis])])
    /\ rng' \in Entropy
    /\ UNCHANGED <<hashSalt, previous_results_cache, pc, in_prompt, in_seed, in_analysis, in_tracks,
                 env, request, frame, response>>

NextQueries == GenerateQueriesCall \/ RecommendationsCall

SpecQueries == InitQueries /\ [][NextQueries]_vars

IsBlank(q) == Strip(q) = <<>>
NoRepeats(qs) == \A i, j \in 1..Len(qs) : qs[i] = qs[j] => i = j

MainQueryRuns ==
    {i \in 1..Len(runs) : runs[i].fn = "generate_artist_focused_queries" /\ runs[i].ret.exc = ""}

\* C3: for all (prompt, analysis, seed), generate_artist_focused_queries
\* returns at most 10 queries, no two equal as strings, none empty or
\* whitespace-only.
C3_MainQueriesBoundedDistinctNonBlank ==
    pc = "queries" =>
        \A i \in MainQueryRuns :
            LET qs == runs[i].ret.val
            IN  Len(qs) <= 10 /\ NoRepeats(qs) /\ \A k \in 1..Len(qs) : ~IsBlank(qs[k])

\* C3 witness: a call whose built list held a blank entry, held repeats and
\* was longer than 10 after both were removed
C3_Witness ==
    /\ pc = "queries"
    /\ MainQueryRuns # {}
    /\ LET built == built_queries(in_prompt, in_analysis)
       IN  /\ \E k \in 1..Len(built) : IsBlank(built[k])
           /\ ~NoRepeats(StripNonBlank(built))
           /\ Len(DedupKeepFirst(StripNonBlank(built))) > 10

\* the calls of get_ai_powered_recommendations that returned
PipelineRuns ==
    {i \in 1..Len(runs) : runs[i].fn = "get_ai_powered_recommendations" /\ runs[i].ret.exc = ""}

\* C21: when the caller supplies no refresh_seed, the pipeline runs the
\* Prompt Analyzer with the first persona and returns the combined query list
\* in construction order, the main queries followed by the discovery queries,
\* unshuffled.  The persona is the one get_prompt_analysis selects for the
\* seed the pipeline hands it, which is the seed it returns.
C21_NoSeedFirstPersonaUnshuffled ==
    (pc = "queries" /\ in_seed = None) =>
        \A i \in PipelineRuns :
            LET got == runs[i].ret.val
            IN  /\ analysis_approach_of(got.refresh_seed) = analysis_variations[1]
                /\ got.all_queries = got.main_queries \o got.discovery_queries

\* the entries C23 lists, in its order, each present or not, before
\* stripping and deduplication
StatedEntries(prompt, analysis) ==
    LET pioneers == Slice(DictGet(analysis, "pioneer_artists", JList(<<>>)), 3)
        contemporaries == Slice(DictGet(analysis, "contemporary_artists", JList(<<>>)), 2)
        styles == Slice(DictGet(analysis, "related_styles", JList(<<>>)), 2)
        era == DictGet(analysis, "era", JStr(<<>>))
        Artist(xs, i, skipped) ==
            IF i <= Len(xs) /\ Truthy(xs[i]) /\ Fmt(xs[i]) \notin skipped
            THEN << <<"a", "r", "t", "i", "s", "t", ":", "\"">> \o Fmt(xs[i]) \o <<"\"">> >> ELSE <<>>
        Style(i) == IF i <= Len(styles) /\ Truthy(styles[i]) THEN << Fmt(styles[i]) >> ELSE <<>>
        EraStyle(i) ==
            IF Style(i) # <<>> /\ Truthy(era)
            THEN << Fmt(era) \o <<" ">> \o Fmt(styles[i]) >> ELSE <<>>
        EraOnly(suffix) ==
            IF Truthy(era) /\ Fmt(era) # <<"v", "a", "r", "i", "o", "u", "s">> THEN << Fmt(era) \o suffix >> ELSE <<>>
        Variant(word) ==
            IF IsSubstr(<<"d", "r", "u", "m", "s">>, Lower(prompt))
            THEN << Replace(prompt, <<"d", "r", "u", "m", "s">>, word) >> ELSE <<>>
    IN  Artist(pioneers, 1, {<<"V", "a", "r", "i", "o", "u", "s", " ", "A", "r", "t", "i", "s", "t", "s">>})
        \o Artist(pioneers, 2, {<<"V", "a", "r", "i", "o", "u", "s", " ", "A", "r", "t", "i", "s", "t", "s">>})
        \o Artist(pioneers, 3, {<<"V", "a", "r", "i", "o", "u", "s", " ", "A", "r", "t", "i", "s", "t", "s">>})
        \o Artist(contemporaries, 1, {<<"M", "o", "d", "e", "r", "n", " ", "A", "r", "t", "i", "s", "t", " ", "1">>, <<"M", "o", "d", "e", "r", "n", " ", "A", "r", "t", "i", "s", "t", " ", "2">>})
        \o Artist(contemporaries, 2, {<<"M", "o", "d", "e", "r", "n", " ", "A", "r", "t", "i", "s", "t", " ", "1">>, <<"M", "o", "d", "e", "r", "n", " ", "A", "r", "t", "i", "s", "t", " ", "2">>})
        \o Style(1) \o EraStyle(1) \o Style(2) \o EraStyle(2)
        \o EraOnly(<<" ", "m", "u", "s", "i", "c">>) \o EraOnly(<<" ", "i", "n", "s", "t", "r", "u", "m", "e", "n", "t", "a", "l">>)
        \o << prompt >> \o Variant(<<"b", "e", "a", "t", "s">>) \o Variant(<<"p", "e", "r", "c", "u", "s", "s", "i", "o", "n">>)

\* of the first n entries of qs, the non-empty ones that no earlier entry equals
RECURSIVE FirstOccurrences(_, _)
FirstOccurrences(qs, n) ==
    IF n = 0 THEN <<>>
    ELSE FirstOccurrences(qs, n - 1)
         \o (IF qs[n] # <<>> /\ \A j \in 1..(n - 1) : qs[j] # qs[n] THEN << qs[n] >> ELSE <<>>)

\* the stated entries stripped, blanks and repeats removed
StatedDistinct(prompt, analysis) ==
    LET entries == StatedEntries(prompt, analysis)
        stripped == [i \in 1..Len(entries) |-> Strip(entries[i])]
    IN  FirstOccurrences(stripped, Len(stripped))

\* C23: the main query list is the first 10 entries of the sequence built in
\* this order and then stripped and deduplicated keeping first occurrences:
\* artist-scoped queries for the first 3 pioneers (skipping 'Various
\* Artists'), for the first 2 contemporary artists (skipping the placeholder
\* names), for each of the first 2 related styles the style then
\* '{era} {style}', then '{era} music' and '{era} instrumental' when era is
\* not 'various', then the raw prompt, then its 'drums'->'beats' and
\* 'drums'->'percussion' variants; entries built earlier are never displaced
\* by entries built later.
C23_MainQueriesInStatedOrder ==
    pc = "queries" =>
        \A i \in MainQueryRuns :
            LET stated == StatedDistinct(in_prompt, in_analysis)
            IN  runs[i].ret.val = SubSeq(stated, 1, Min(10, Len(stated)))

\* a call on a prompt with 'drums' in it whose stated entries, stripped and
\* deduplicated, are more than 10: the list returned ends before the prompt,
\* which was built after the ten that were kept
C23_Witness ==
    /\ pc = "queries"
    /\ IsSubstr(<<"d", "r", "u", "m", "s">>, in_prompt)
    /\ \E i \in MainQueryRuns :
          /\ Len(runs[i].ret.val) = 10
          /\ \A k \in 1..10 : runs[i].ret.val[k] # Strip(in_prompt)
          /\ Len(StatedDistinct(in_prompt, in_analysis)) > 10

(***************************************************************************)
(* SpecRank: calls of ai_filter_and_rank_tracks on one                     *)
(* (tracks, analysis, refresh_seed)                                        *)
(***************************************************************************)
MaxTracks == 3
MaxBig == 22
MaxSalt == 1

T_premier == [id |-> <<"x">>, title |-> <<"R", "a", "w", " ", "D", "e", "a", "l">>, artist |-> <<"d", "j", " ", "p", "r", "e", "m", "i", "e", "r">>,
              release_date |-> <<"1", "9", "9", "4", "-", "0", "5", "-", "0", "1">>]
T_same_id == [id |-> <<"x">>, title |-> <<"d", "u", "s", "t", "y", " ", "r", "a", "w">>, artist |-> <<"G", "r", "i", "s", "e", "l", "d", "a">>,
              release_date |-> <<"2", "0", "0", "0", "-", "0", "1", "-", "0", "1">>]
T_no_id == [title |-> <<"a">>, artist |-> <<"b">>, release_date |-> <<"1", "9", "9", "0">>]
T_empty_id == [id |-> <<>>, title |-> <<"a">>, artist |-> <<"b">>, release_date |-> <<>>]
T_key_as_id == [id |-> <<"a", "-", "b">>, title |-> <<"J", "a", "z", "z", " ", "x">>, artist |-> <<"P", "e", "t", "e", " ", "R", "o", "c", "k", " ", "&", " ", "N", "a", "s">>,
                release_date |-> <<"1", "9", "8", "9", "-", "1", "2", "-", "3", "1">>]
T_bare == [id |-> <<"y">>, release_date |-> <<"1", "9", "x", "9">>]

TrackPool == {T_premier, T_same_id, T_no_id, T_empty_id, T_key_as_id, T_bare}

SmallTrackLists == UNION {[1..n -> TrackPool] : n \in 0..MaxTracks}

RECURSIVE Digits(_)
Digits(n) == IF n < 10 THEN <<Digit[n + 1]>> ELSE Digits(n \div 10) \o <<Digit[(n % 10) + 1]>>

BigArtists == << <<"D", "J", " ", "P", "r", "e", "m", "i", "e", "r">>, <<"g", "r", "i", "s", "e", "l", "d", "a">>, <<"N", "o", "b", "o", "d", "y">>, <<"N", "a", "s", " ", "f", "e", "a", "t", ".", " ", "A", "Z">> >>
BigTitles == << <<"R", "a", "w">>, <<"x">>, <<"d", "u", "s", "t", "y", " ", "R", "A", "W">> >>
BigYears == << <<"1", "9", "6", "9">>, <<"1", "9", "7", "0">>, <<"1", "9", "7", "9">>, <<"1", "9", "8", "0">>, <<"1", "9", "8", "9">>, <<"1", "9", "9", "0">>, <<"1", "9", "9", "9">>,
               <<"2", "0", "0", "0">>, <<"1", "9", "9">>, <<"1", "9", "x", "9">>, <<" ", "1", "9", "9">> >>

\* n tracks whose scores repeat; in variant 2 every fifth track has no id but
\* one title and artist, and the ids start again after 20
BigTrack(i, variant) ==
    LET rest == [title |-> IF variant = 2 /\ i % 5 = 0 THEN <<"a">> ELSE BigTitles[(i % 3) + 1],
                 artist |-> IF variant = 2 /\ i % 5 = 0 THEN <<"b">> ELSE BigArtists[(i % 4) + 1],
                 release_date |-> BigYears[(i % 11) + 1] \o <<"-", "0", "1", "-", "0", "1">>]
    IN  IF variant = 2 /\ i % 5 = 0 THEN rest
        ELSE [id |-> <<"t">> \o Digits(IF variant = 2 THEN ((i - 1) % 20) + 1 ELSE i)] @@ rest

BigTrackLists ==
    {[i \in 1..n |-> BigTrack(i, variant)] : n \in (MaxBig - 3)..MaxBig, variant \in {1, 2}}

RankAnalyses == {A_boom, A_messy, A_partial, A_nulls, A_not_dict}
RankSeeds == {None, Some(0), Some(42), Some(-7)}

InitRank ==
    /\ pc = "rank"
    /\ in_prompt = <<"9", "0", "s", " ", "b", "o", "o", "m", " ", "b", "a", "p", " ", "d", "r", "u", "m", "s">>
    /\ \/ /\ in_tracks \in BigTrackLists
          /\ in_analysis \in RankAnalyses
          /\ in_seed \in RankSeeds
          /\ hashSalt \in 0..MaxSalt
          /\ rng \in Entropy
       \/ /\ in_tracks \in SmallTrackLists
          /\ in_analysis = A_boom
          /\ in_seed \in {None, Some(42)}
          /\ hashSalt = 0
          /\ rng = 0
    /\ runs = <<>>
    /\ NoRequest

\* one call; every rank_track call that reaches line 340 leaves the generator
\* in a state drawn from entropy
RankCall ==
    /\ pc \in {"rank", "stages"}
    /\ RunsOf("ai_filter_and_rank_tracks") < MaxRuns
    /\ LET ret == ai_filter_and_rank_tracks(in_tracks, in_prompt, in_analysis, in_seed)
       IN  /\ runs' = Append(runs, [fn |-> "ai_filter_and_rank_tracks", ret |-> ret])
           /\ rng' \in (IF /\ ret.exc = "" /\ in_tracks # <<>>
                           /\ in_seed # None /\ in_seed[1] # 0
                        THEN Entropy ELSE {rng})
    /\ UNCHANGED <<hashSalt, previous_results_cache, pc, in_prompt, in_seed, in_analysis, in_tracks,
                 env, request, frame, response>>

NextRank == RankCall

SpecRank == InitRank /\ [][NextRank]_vars

RankRuns ==
    {i \in 1..Len(runs) : runs[i].fn = "ai_filter_and_rank_tracks" /\ runs[i].ret.exc = ""}

HasId(t) == TrackGet(t, "id", <<>>) # <<>>
SameId(t, u) == HasId(t) /\ HasId(u) /\ t["id"] = u["id"]
SamePair(t, u) ==
    /\ ~HasId(t) /\ ~HasId(u)
    /\ TrackGet(t, "title", <<>>) = TrackGet(u, "title", <<>>)
    /\ TrackGet(t, "artist", <<>>) = TrackGet(u, "artist", <<>>)

\* C4: the Ranker output holds at most one track per id and, among tracks
\* without an id, at most one per (title, artist); a track it keeps is the
\* first of its id (or pair) in input order.
C4_OnePerIdFirstKept ==
    pc = "rank" =>
        \A r \in RankRuns :
            LET o == runs[r].ret.val.order
            IN  /\ \A p, q \in 1..Len(o) :
                      p # q => /\ o[p] # o[q]
                               /\ ~SameId(in_tracks[o[p]], in_tracks[o[q]])
                               /\ ~SamePair(in_tracks[o[p]], in_tracks[o[q]])
                /\ \A p \in 1..Len(o) : \A j \in 1..(o[p] - 1) :
                      /\ ~SameId(in_tracks[j], in_tracks[o[p]])
                      /\ ~SamePair(in_tracks[j], in_tracks[o[p]])

\* C4 witness: a ranked input that repeats an id and repeats an id-less
\* (title, artist), with both a track of that id and one of that pair returned
C4_Witness ==
    /\ pc = "rank"
    /\ \E r \in RankRuns :
          LET o == runs[r].ret.val.order
          IN  /\ \E p \in 1..Len(o) : \E j \in 1..Len(in_tracks) :
                    j # o[p] /\ SameId(in_tracks[j], in_tracks[o[p]])
              /\ \E p \in 1..Len(o) : \E j \in 1..Len(in_tracks) :
                    j # o[p] /\ SamePair(in_tracks[j], in_tracks[o[p]])

\* C25: the Ranker's deduplication drops a track only if an earlier input
\* track has the same id or, both lacking an id, the same title and artist;
\* a track with an id is never dropped because of an id-less track, nor an
\* id-less one because of a track with an id.  Stated on inputs of at most
\* 20 tracks, of which the ranking cuts none: a track not returned was
\* dropped by the deduplication.
C25_DroppedOnlyForEarlierSame ==
    (pc = "rank" /\ Len(in_tracks) <= RankLimit) =>
        \A r \in RankRuns :
            LET o == runs[r].ret.val.order
            IN  \A n \in 1..Len(in_tracks) :
                    (\A p \in 1..Len(o) : o[p] # n) =>
                        \E j \in 1..(n - 1) :
                            \/ SameId(in_tracks[j], in_tracks[n])
                            \/ SamePair(in_tracks[j], in_tracks[n])


\* the names an analysis lists in a field, as the Ranker's loops see them
NamesOf(analysis_, field) ==
    LET items == Slice(DictGet(analysis_, field, JList(<<>>)), 1000)
    IN  [i \in 1..Len(items) |-> items[i].v]

MatchesAny(names, text) ==
    \E i \in 1..Len(names) : IsSubstr(Lower(names[i]), Lower(text))

Decades == { <<<<"7", "0", "s">>, 1970, 1979>>, <<<<"8", "0", "s">>, 1980, 1989>>, <<<<"9", "0", "s">>, 1990, 1999>> }

\* the release year, when the first four characters of the date are one
ReleaseYear(track) ==
    LET d == TrackGet(track, "release_date", <<>>)
        y == Strip(SubSeq(d, 1, Min(4, Len(d))))
    IN  IF y # <<>> /\ \A i \in 1..Len(y) : IsDigit(y[i]) THEN Some(ParseInt(y)) ELSE None

\* the score C9 states, without the jitter
StatedScore(track, analysis_) ==
    LET artist == TrackGet(track, "artist", <<>>)
        title == TrackGet(track, "title", <<>>)
        moods == NamesOf(analysis_, "mood_keywords")
        era == DictGet(analysis_, "era", JStr(<<>>))
        year == ReleaseYear(track)
    IN  (IF MatchesAny(NamesOf(analysis_, "pioneer_artists"), artist) THEN 50
         ELSE IF MatchesAny(NamesOf(analysis_, "contemporary_artists"), artist) THEN 30
         ELSE 0)
        + 10 * Cardinality({k \in 1..Len(moods) : IsSubstr(Lower(moods[k]), Lower(title))})
        + (IF /\ era.k = "str"
              /\ year # None
              /\ \E d \in Decades : IsSubstr(d[1], era.v) /\ year[1] \in d[2]..d[3]
           THEN 25 ELSE 0)

UniquePositions ==
    LET unique == unique_tracks(in_tracks)
    IN  {unique[p] : p \in 1..Len(unique)}

Before(score, i, j) == score[i] > score[j] \/ (score[i] = score[j] /\ i < j)

\* C10: the Ranker output is in non-increasing score order, equal scores in
\* input order, and is the first min(20, number of unique tracks) tracks of
\* that ordering of the unique tracks.
C10_StableDescendingTop20 ==
    pc = "rank" =>
        \A r \in RankRuns :
            LET o == runs[r].ret.val.order
                score == runs[r].ret.val.score
                out == {o[p] : p \in 1..Len(o)}
                kept == UniquePositions
            IN  /\ out \subseteq kept
                /\ Len(o) = Min(20, Cardinality(kept))
                /\ \A p, q \in 1..Len(o) : p < q => Before(score, o[p], o[q])
                /\ \A u \in kept \ out : \A p \in 1..Len(o) : Before(score, o[p], u)

\* C10 witness: more than 20 unique tracks, equal scores among those
\* returned, and a track left out whose score equals the last one returned
C10_Witness ==
    /\ pc = "rank"
    /\ Cardinality(UniquePositions) > 20
    /\ \E r \in RankRuns :
          LET o == runs[r].ret.val.order
              score == runs[r].ret.val.score
          IN  /\ Len(o) = 20
              /\ \E p, q \in 1..Len(o) : p < q /\ score[o[p]] = score[o[q]]
              /\ \E u \in UniquePositions : score[u] = score[o[20]] /\ u > o[20]
              /\ score[o[1]] > score[o[20]]


(***************************************************************************)
(* The stages run again and again in one process: calls of                 *)
(* get_ai_powered_recommendations and of ai_filter_and_rank_tracks on the  *)
(* same arguments, in any order.  Every call leaves the shared generator   *)
(* in a state drawn from entropy (gpt_utils.py lines 54, 241, 340), so a   *)
(* later call starts from a generator state the earlier one did not have.  *)
(***************************************************************************)
StageTrackLists ==
    {[i \in 1..MaxBig |-> BigTrack(i, 1)],
     <<T_premier, T_same_id, T_no_id>>,
     <<T_no_id, T_bare, T_premier>>}

InitStages ==
    /\ rng \in Entropy
    /\ hashSalt \in 0..MaxSalt
    /\ pc = "stages"
    /\ in_prompt = <<"9", "0", "s", " ", "b", "o", "o", "m", " ", "b", "a", "p", " ", "d", "r", "u", "m", "s">>
    /\ in_analysis \in {A_boom, A_messy}
    /\ in_seed \in {None, Some(0), Some(42)}
    /\ in_tracks \in StageTrackLists
    /\ runs = <<>>
    /\ NoRequest

NextStages == RecommendationsCall \/ RankCall

SpecStages == InitStages /\ [][NextStages]_vars

Count(s, x) == Cardinality({i \in 1..Len(s) : s[i] = x})
IsPermutation(a, b) ==
    /\ Len(a) = Len(b)
    /\ \A i \in 1..Len(a) : Count(a, a[i]) = Count(b, a[i])

popularity_points(track) ==
    LET popularity == IF track.popularity = None THEN 50 ELSE track.popularity[1]
    IN  IF popularity < 30 THEN 30 ELSE IF popularity < 60 THEN 15 ELSE 0

\* lines 419-421: the year the score goes by, None when release_date is empty
sample_year(track) ==
    LET release_date == IF track.release_date = None THEN <<>> ELSE track.release_date[1]
    IN  IF release_date = <<>> THEN None
        ELSE IF Len(release_date) >= 4 THEN Some(ParseInt(SubSeq(release_date, 1, 4)))
        ELSE Some(2020)

\* lines 422-427
year_points(track) ==
    LET year == sample_year(track)
    IN  IF year = None THEN 0
        ELSE IF year[1] < 1980 THEN 25
        ELSE IF year[1] < 1990 THEN 20
        ELSE IF year[1] < 2000 THEN 15
        ELSE 0

\* mutant of explicit_points: an explicit track gets 20
explicit_points_doubled(track) == IF track.explicit = Some(TRUE) THEN 20 ELSE 0

\* lines 430-431
explicit_points(track) == IF track.explicit = Some(TRUE) THEN 10 ELSE 0

ScoreCap == 100

calculate_sample_score(track) ==
    IF /\ track.release_date # None
       /\ Len(track.release_date[1]) >= 4
       /\ ~IntParses(SubSeq(track.release_date[1], 1, 4))
    THEN Raise("ValueError")
    ELSE Return(Min(popularity_points(track) + year_points(track) + explicit_points(track),
                    ScoreCap))

GradeA == 70
GradeB == 50
GradeC == 30

grade_track_for_sampling(track) ==
    LET score == calculate_sample_score(track)
    IN  IF score.exc # "" THEN score
        ELSE Return(IF score.val >= GradeA THEN "A"
                    ELSE IF score.val >= GradeB THEN "B"
                    ELSE IF score.val >= GradeC THEN "C"
                    ELSE "D")

Popularities == {None, Some(0), Some(15), Some(29), Some(30), Some(59), Some(60), Some(100)}
ReleaseDates ==
    {None, Some(<<>>), Some(<<"1", "9", "7">>), Some(<<"1", "9", "7", "5", "-", "0", "3", "-", "0", "1">>), Some(<<"1", "9", "7", "9">>), Some(<<"1", "9", "8", "0">>),
     Some(<<"1", "9", "8", "9", "-", "1", "2", "-", "3", "1">>), Some(<<"1", "9", "9", "0">>), Some(<<"1", "9", "9", "9", "-", "0", "1">>), Some(<<"2", "0", "0", "0">>), Some(<<"1", "9", "x", "9">>)}
Explicits == {None, Some(TRUE), Some(FALSE)}

RawTracks == [popularity : Popularities, release_date : ReleaseDates, explicit : Explicits]

InitSample ==
    /\ rng = 0
    /\ hashSalt = 0
    /\ pc = "sample"
    /\ in_prompt = <<>>
    /\ in_seed = None
    /\ in_analysis = JNull
    /\ in_tracks \in {<<t>> : t \in RawTracks}
    /\ runs = <<>>
    /\ NoRequest

\* lines 399 and 401 of format_track_data: both derived fields of one track
SampleCall ==
    /\ pc = "sample"
    /\ runs = <<>>
    /\ runs' = <<[fn |-> "format_track_data",
                  sample_potential |-> calculate_sample_score(in_tracks[1]),
                  sample_grade |-> grade_track_for_sampling(in_tracks[1])]>>
    /\ UNCHANGED <<rng, hashSalt, previous_results_cache, pc, in_prompt, in_seed, in_analysis, in_tracks,
                 env, request, frame, response>>

NextSample == SampleCall

SpecSample == InitSample /\ [][NextSample]_vars

\* the track of the scenario: popularity 15, released 1975-03-01, explicit
ScenarioTrack ==
    [popularity |-> Some(15), release_date |-> Some(<<"1", "9", "7", "5", "-", "0", "3", "-", "0", "1">>), explicit |-> Some(TRUE)]

\* C12: the sample score of a track is 30 for a popularity under 30 (15 under
\* 60), plus 25 for a release year before 1980 (20 before 1990, 15 before
\* 2000), plus 10 when explicit, capped at 100; the track with popularity 15,
\* release date 1975-03-01 and explicit true scores 65 and is graded 'A'.
C12_SampleScoreAndGrade ==
    (pc = "sample" /\ runs # <<>> /\ runs[1].sample_potential.exc = "") =>
        LET track == in_tracks[1]
            pop == IF track.popularity = None THEN 50 ELSE track.popularity[1]
            date == IF track.release_date = None THEN <<>> ELSE track.release_date[1]
            year == IF Len(date) >= 4 THEN ParseInt(SubSeq(date, 1, 4)) ELSE 2020
            sum == (IF pop < 30 THEN 30 ELSE IF pop < 60 THEN 15 ELSE 0)
                   + (IF date = <<>> THEN 0
                      ELSE IF year < 1980 THEN 25
                      ELSE IF year < 1990 THEN 20
                      ELSE IF year < 2000 THEN 15 ELSE 0)
                   + (IF track.explicit = Some(TRUE) THEN 10 ELSE 0)
        IN  /\ runs[1].sample_potential.val = (IF sum > 100 THEN 100 ELSE sum)
            /\ track = ScenarioTrack =>
                  /\ runs[1].sample_potential.val = 65
                  /\ runs[1].sample_grade.val = "A"

\* C27: for every formatted track sample_potential lies in 0..65 and
\* sample_grade is the grade of that same score: B iff the score is 50 or
\* more, C iff it is 30 or more and under 50, D iff it is under 30; grade A,
\* which needs 70, is never assigned.  A track is formatted when neither
\* derived field raised.
C27_ScoreAtMost65NeverGradeA ==
    (pc = "sample" /\ runs # <<>> /\ runs[1].sample_potential.exc = "") =>
        LET score == runs[1].sample_potential.val
            grade == runs[1].sample_grade
        IN  /\ score \in 0..65
            /\ grade.exc = ""
            /\ grade.val \in {"B", "C", "D"}
            /\ grade.val = "B" <=> score >= 50
            /\ grade.val = "C" <=> (30 <= score /\ score < 50)
            /\ grade.val = "D" <=> score < 30

\* the track that has every bonus was formatted: it scores 65 and is graded B
C27_Witness ==
    /\ pc = "sample" /\ runs # <<>>
    /\ runs[1].sample_potential = Return(65)
    /\ runs[1].sample_grade = Return("B")
    /\ popularity_points(in_tracks[1]) = 30
    /\ year_points(in_tracks[1]) = 25
    /\ explicit_points(in_tracks[1]) = 10



(***************************************************************************)
(* SpecAuth: app.py's /auth/login and /auth/callback for one browser       *)
(* session.  Here request holds the callback's query arguments (None when  *)
(* an argument is absent), frame holds the session's stored state, what    *)
(* the token exchange came to and the number of requests handled, and      *)
(* response holds the redirect.                                            *)
(***************************************************************************)
MaxAuthSteps == 3

\* s cut at the first c: the part before it and the part after it (None when
\* c is not in s)
RECURSIVE Partition(_, _)
Partition(s, c) ==
    IF s = <<>> THEN [head |-> <<>>, rest |-> None]
    ELSE IF Head(s) = c THEN [head |-> <<>>, rest |-> Some(Tail(s))]
    ELSE LET p == Partition(Tail(s), c)
         IN  [head |-> <<Head(s)>> \o p.head, rest |-> p.rest]

\* the query parameters a URL carries, as the browser reads them: the text
\* after the first '?', cut at every '&', each piece cut at its first '='
RECURSIVE QueryPairs(_)
QueryPairs(query) ==
    LET piece == Partition(query, "&")
        pair == Partition(piece.head, "=")
        this == IF piece.head = <<>> THEN {}
                ELSE {[name |-> pair.head,
                       value |-> IF pair.rest = None THEN <<>> ELSE pair.rest[1]]}
    IN  IF piece.rest = None THEN this ELSE this \cup QueryPairs(piece.rest[1])

QueryOf(url) == LET p == Partition(url, "?") IN IF p.rest = None THEN <<>> ELSE p.rest[1]
HasParam(url, name) == \E q \in QueryPairs(QueryOf(url)) : q.name = name

FrontendUrl == <<"h", "t", "t", "p", ":", "/", "/", "l", "o", "c", "a", "l", "h", "o", "s", "t", ":", "3", "0", "0", "0">>

\* redirect(location): the f-string is the Location as it stands; '&', '=' and
\* '?' are not escaped by the f-string nor by redirect()
Redirect(route, location) == [route |-> route, status |-> 302, location |-> location]
JsonError(route, status) == [route |-> route, status |-> status, location |-> <<>>]

\* redeemed tells that a callback of the session has completed the token
\* exchange and /auth/login has issued no state since
Session0 == [spotify_auth_state |-> None, exchange |-> "none", handled |-> 0,
             redeemed |-> FALSE]

\* secrets.token_urlsafe(32)
StateTokens == {<<"s", "1">>, <<"s", "2">>}

\* request.args of /auth/callback
CodeArgs == {None, Some(<<>>), Some(<<"c", "0", "d", "e">>)}
StateArgs == {None, Some(<<>>)} \cup {Some(s) : s \in StateTokens}
ErrorArgs == {None, Some(<<>>), Some(<<"a", "c", "c", "e", "s", "s", "_", "d", "e", "n", "i", "e", "d">>), Some(<<"x", "&", "a", "c", "c", "e", "s", "s", "_", "t", "o", "k", "e", "n", "=", "e", "v", "i", "l">>)}
CallbackArgs == [code : CodeArgs, state : StateArgs, error : ErrorArgs]

\* what requests.post to the token endpoint comes to: it raises, answers
\* non-200, answers 200 with a body that has no access_token, or answers 200
\* with a token
Exchanges ==
    {[kind |-> k, access_token |-> <<>>] : k \in {"raised", "non_200", "no_token"}}
    \cup {[kind |-> "ok", access_token |-> <<"B", "Q", "D">>]}

InitAuth ==
    /\ rng = 0
    /\ hashSalt = 0
    /\ pc = "auth"
    /\ in_prompt = <<>>
    /\ in_seed = None
    /\ in_analysis = JNull
    /\ in_tracks = <<>>
    /\ runs = <<>>
    /\ env \in [handler : {"auth"}, api_key : {TRUE}, catalog : {""}, spotify : BOOLEAN]
    /\ request = [code |-> None, state |-> None, error |-> None]
    /\ frame = Session0
    /\ response = JsonError("", 0)
    /\ previous_results_cache = <<>>

\* lines 96-129: spotify_login
spotify_login ==
    /\ pc = "auth"
    /\ frame.handled < MaxAuthSteps
    /\ IF ~env.spotify
       THEN /\ response' = JsonError("login", 500)
            /\ frame' = [frame EXCEPT !.handled = @ + 1, !.exchange = "none"]
       ELSE \E state \in StateTokens :
               /\ frame' = [frame EXCEPT !.spotify_auth_state = Some(state),
                                         !.handled = @ + 1, !.exchange = "none",
                                         !.redeemed = FALSE]
               /\ response' = Redirect("login",
                                  <<"h", "t", "t", "p", "s", ":", "/", "/", "a", "c", "c", "o", "u", "n", "t", "s", ".", "s", "p", "o", "t", "i", "f", "y", ".", "c", "o", "m", "/", "a", "u", "t", "h", "o", "r", "i", "z", "e", "?", "r", "e", "s", "p", "o", "n", "s", "e", "_", "t", "y", "p", "e", "=", "c", "o", "d", "e", "&", "s", "t", "a", "t", "e", "=">>
                                  \o state)
    /\ request' = [code |-> None, state |-> None, error |-> None]
    /\ UNCHANGED <<rng, hashSalt, previous_results_cache, pc, in_prompt, in_seed, in_analysis, in_tracks, runs, env>>

\* Python's truth value of an optional str: neither None nor ''
Given(arg) == arg # None /\ arg[1] # <<>>

\* lines 131-188: spotify_callback.  in_analysis keeps the session state the
\* request found, for the comparison on line 144.
spotify_callback ==
    /\ pc = "auth"
    /\ frame.handled < MaxAuthSteps
    /\ \E args \in CallbackArgs, exchange \in Exchanges :
          /\ request' = args
          /\ IF Given(args.error)
             THEN /\ response' = Redirect("callback",
                                          FrontendUrl \o <<"?", "e", "r", "r", "o", "r", "=">> \o args.error[1])
                  /\ frame' = [frame EXCEPT !.handled = @ + 1, !.exchange = "none"]
             ELSE IF ~Given(args.state) \/ args.state # frame.spotify_auth_state
             THEN /\ response' = Redirect("callback", FrontendUrl \o <<"?", "e", "r", "r", "o", "r", "=", "i", "n", "v", "a", "l", "i", "d", "_", "s", "t", "a", "t", "e">>)
                  /\ frame' = [frame EXCEPT !.handled = @ + 1, !.exchange = "none"]
             ELSE IF ~Given(args.code)
             THEN /\ response' = Redirect("callback", FrontendUrl \o <<"?", "e", "r", "r", "o", "r", "=", "n", "o", "_", "c", "o", "d", "e">>)
                  /\ frame' = [frame EXCEPT !.handled = @ + 1, !.exchange = "none"]
             ELSE CASE exchange.kind = "non_200" ->
                        /\ response' = Redirect("callback",
                                           FrontendUrl \o <<"?", "e", "r", "r", "o", "r", "=", "t", "o", "k", "e", "n", "_", "e", "x", "c", "h", "a", "n", "g", "e", "_", "f", "a", "i", "l", "e", "d">>)
                        /\ frame' = [frame EXCEPT !.handled = @ + 1, !.exchange = "non_200"]
                    [] exchange.kind \in {"raised", "no_token"} ->
                        /\ response' = Redirect("callback",
                                           FrontendUrl \o <<"?", "e", "r", "r", "o", "r", "=", "s", "e", "r", "v", "e", "r", "_", "e", "r", "r", "o", "r">>)
                        /\ frame' = [frame EXCEPT !.handled = @ + 1,
                                                  !.exchange = exchange.kind]
                    [] OTHER ->
                        /\ response' = Redirect("callback",
                                           FrontendUrl \o <<"?", "a", "c", "c", "e", "s", "s", "_", "t", "o", "k", "e", "n", "=">>
                                           \o exchange.access_token)
                        /\ frame' = [frame EXCEPT !.handled = @ + 1, !.exchange = "ok",
                                                  !.spotify_auth_state = None,
                                                  !.redeemed = TRUE]
    /\ in_analysis' = frame.spotify_auth_state
    /\ UNCHANGED <<rng, hashSalt, previous_results_cache, pc, in_prompt, in_seed, in_tracks, runs, env>>

NextAuth == spotify_login \/ spotify_callback

SpecAuth == InitAuth /\ [][NextAuth]_vars

\* whether the callback just handled was one the exchange may be attempted
\* for: no error given, a state given that is the session's, a code given
MayExchange ==
    /\ ~Given(request.error)
    /\ Given(request.state)
    /\ request.state = in_analysis
    /\ Given(request.code)

\* C14: /auth/callback attempts the token exchange only when no error
\* parameter is given, the state parameter is non-empty and equals the state
\* /auth/login stored in the session, and a code is given; in every other
\* case, and whenever the exchange answers non-200 or raises, the redirect
\* carries an error query parameter and no access token.  A redirect carries
\* an access token only after a 200 token exchange.
C14_TokenOnlyAfterExchange ==
    (pc = "auth" /\ response.route = "callback") =>
        /\ frame.exchange # "none" => MayExchange
        /\ (~MayExchange \/ frame.exchange \in {"non_200", "raised", "no_token"}) =>
              /\ HasParam(response.location, <<"e", "r", "r", "o", "r">>)
              /\ ~HasParam(response.location, <<"a", "c", "c", "e", "s", "s", "_", "t", "o", "k", "e", "n">>)
        /\ HasParam(response.location, <<"a", "c", "c", "e", "s", "s", "_", "t", "o", "k", "e", "n">>) => frame.exchange = "ok"

\* the values the redirect's URL gives for a query parameter
ParamValues(url, name) == {q.value : q \in {p \in QueryPairs(QueryOf(url)) : p.name = name}}

\* the callback just handled was rejected: no token exchange was attempted
\* for it and its redirect carries an error and no access token
Rejected ==
    /\ frame.exchange = "none"
    /\ HasParam(response.location, <<"e", "r", "r", "o", "r">>)
    /\ ~HasParam(response.location, <<"a", "c", "c", "e", "s", "s", "_", "t", "o", "k", "e", "n">>)

RejectedInvalidState ==
    /\ Rejected
    /\ ParamValues(response.location, <<"e", "r", "r", "o", "r">>) = {<<"i", "n", "v", "a", "l", "i", "d", "_", "s", "t", "a", "t", "e">>}

\* C24: an OAuth state value leads to at most one successful token
\* redirect.  A callback that completes the token exchange removes the
\* stored state from the session; every callback after it, whatever state
\* it brings, is rejected with invalid_state until /auth/login is called
\* again; a callback that finds no state in the session, none having been
\* stored by /auth/login, is rejected; and a callback bringing a state
\* other than the one /auth/login issued last is rejected.
C24_StateRedeemedAtMostOnce ==
    (pc = "auth" /\ response.route = "callback") =>
        /\ frame.exchange = "ok" =>
               /\ frame.spotify_auth_state = None
               /\ in_analysis # None /\ request.state = in_analysis
        /\ (frame.redeemed /\ frame.exchange # "ok") => RejectedInvalidState
        /\ in_analysis = None => Rejected
        /\ request.state # in_analysis => Rejected


(***************************************************************************)
(* SpecRace: two requests that carry refresh seeds, handled by two threads *)
(* of one process.  Each runs the three seeded sections of the pipeline    *)
(* in turn (persona choice, query shuffle, ranking jitter of one track),   *)
(* each section being random.seed(...), a draw, random.seed(); the         *)
(* generator is the module's, shared by both.  runs[p] is thread p.        *)
(***************************************************************************)
RaceSeeds == {1, 42}
RaceQueries == << <<"a">>, <<"b">>, <<"c">> >>
RaceTrack == T_premier

Sections == << "persona", "shuffle", "jitter" >>

Thread0(seed) ==
    [refresh_seed |-> seed, section |-> 1, step |-> "seed",
     persona |-> None, queries |-> None, jitter |-> None]

InitRace ==
    /\ rng \in Entropy
    /\ hashSalt = 0
    /\ pc = "race"
    /\ in_prompt = <<>>
    /\ in_seed = None
    /\ in_analysis = JNull
    /\ in_tracks = <<>>
    /\ runs \in {<<Thread0(a), Thread0(b)>> : a \in RaceSeeds, b \in RaceSeeds}
    /\ NoRequest

At(p, section, step) ==
    /\ runs[p].section <= Len(Sections)
    /\ Sections[runs[p].section] = section
    /\ runs[p].step = step

\* lines 52, 239 and 338: random.seed(refresh_seed), and for the jitter
\* random.seed(refresh_seed + hash(id))
RaceSeed ==
    /\ pc = "race"
    /\ \E p \in 1..2 :
          /\ runs[p].section <= Len(Sections)
          /\ runs[p].step = "seed"
          /\ rng' = IF At(p, "jitter", "seed")
                    THEN Seeded(runs[p].refresh_seed + StrHash(jitter_key(RaceTrack)))
                    ELSE Seeded(runs[p].refresh_seed)
          /\ runs' = [runs EXCEPT ![p].step = "draw"]
    /\ UNCHANGED <<hashSalt, previous_results_cache, pc, in_prompt, in_seed, in_analysis, in_tracks,
                   env, request, frame, response>>

\* lines 53, 240 and 339: random.choice, random.shuffle, random.randint(0, 20),
\* each from the generator as the thread finds it
RaceDraw ==
    /\ pc = "race"
    /\ \E p \in 1..2 :
          /\ runs[p].section <= Len(Sections)
          /\ runs[p].step = "draw"
          /\ runs' = [runs EXCEPT
                         ![p].step = "reset",
                         ![p].persona =
                             IF At(p, "persona", "draw")
                             THEN Some(analysis_variations[
                                           RandBelow(rng, Len(analysis_variations)) + 1])
                             ELSE @,
                         ![p].queries =
                             IF At(p, "shuffle", "draw") THEN Some(Shuffle(RaceQueries, rng))
                             ELSE @,
                         ![p].jitter =
                             IF At(p, "jitter", "draw") THEN Some(RandBelow(rng, 21)) ELSE @]
          /\ rng' = RngStep(rng)
    /\ UNCHANGED <<hashSalt, previous_results_cache, pc, in_prompt, in_seed, in_analysis, in_tracks,
                   env, request, frame, response>>

\* lines 54, 241 and 340: random.seed()
RaceReset ==
    /\ pc = "race"
    /\ \E p \in 1..2 :
          /\ runs[p].section <= Len(Sections)
          /\ runs[p].step = "reset"
          /\ rng' \in Entropy
          /\ runs' = [runs EXCEPT ![p].step = "seed", ![p].section = @ + 1]
    /\ UNCHANGED <<hashSalt, previous_results_cache, pc, in_prompt, in_seed, in_analysis, in_tracks,
                   env, request, frame, response>>

NextRace == RaceSeed \/ RaceDraw \/ RaceReset

SpecRace == InitRace /\ [][NextRace]_vars

\* C18: when two requests with refresh seeds run concurrently and their
\* seed / draw / reset steps on the process-wide generator interleave, what
\* each request draws under its seed (the persona, the order of the queries,
\* the jitter of a track) is what its own seed alone determines.
C18_DrawsFixedByOwnSeed ==
    pc = "race" =>
        \A p \in 1..2 :
            LET seed == Some(runs[p].refresh_seed)
            IN  /\ runs[p].persona # None =>
                      runs[p].persona[1] = analysis_approach_of(seed)
                /\ runs[p].queries # None =>
                      runs[p].queries[1] = Shuffle(RaceQueries, Seeded(seed[1]))
                /\ runs[p].jitter # None =>
                      runs[p].jitter[1] = jitter(RaceTrack, seed)


(***************************************************************************)
(* The /recommend handlers: recommend and recommend_legacy_internal of     *)
(* routes.py, get_recommendations and its wrapper of app.py.               *)
(*                                                                         *)
(* The catalog is the environment.  env.catalog names one way it answers:  *)
(* what the k-th call of each search function returns in this request.     *)
(***************************************************************************)
Quote == "\""

\* str.strip('"')
RECURSIVE StripQuotes(_)
StripQuotes(s) ==
    IF s # <<>> /\ Head(s) = Quote THEN StripQuotes(Tail(s))
    ELSE IF s # <<>> /\ s[Len(s)] = Quote THEN StripQuotes(SubSeq(s, 1, Len(s) - 1))
    ELSE s

NoNewline(s) == \A i \in 1..Len(s) : s[i] # "\n"

\* s[j] is a quote and what follows it matches \s+by\s+(.+)$
ByTail(s, j) ==
    LET rest == SubSeq(s, j + 1, Len(s))
        by == LStrip(rest)
        tail == SubSeq(by, 3, Len(by))
    IN  /\ s[j] = Quote
        /\ Len(by) < Len(rest)
        /\ Len(by) >= 2 /\ by[1] = "b" /\ by[2] = "y"
        /\ Len(tail) >= 2 /\ tail[1] \in Whitespace
        /\ LStrip(tail) # <<>> /\ NoNewline(LStrip(tail))

\* re.match(r'["](.+?)["]\s+by\s+(.+)$') at position q of s: the two groups,
\* stripped, or None.  The lazy group ends at the first quote that lets the
\* rest match.
QuotedBy(s, q) ==
    LET ends == {j \in (q + 2)..Len(s) : ByTail(s, j) /\ NoNewline(SubSeq(s, q + 1, j - 1))}
    IN  IF q > Len(s) \/ s[q] # Quote \/ ends = {} THEN None
        ELSE LET j == CHOOSE e \in ends : \A f \in ends : e <= f
                 by == LStrip(SubSeq(s, j + 1, Len(s)))
             IN  Some([title |-> Strip(SubSeq(s, q + 1, j - 1)),
                       artist |-> Strip(SubSeq(by, 3, Len(by)))])

\* routes.py lines 66-83: the arguments of the fallback search_track call
fallback_search_args(query) ==
    LET artist_title_match == QuotedBy(Strip(query), 1)
    IN  IF artist_title_match # None THEN artist_title_match[1]
        ELSE IF IsSubstr(<<"a", "r", "t", "i", "s", "t", ":">>, Lower(query))
        THEN [title |-> <<>>,
              artist |-> StripQuotes(Strip(Replace(Lower(query), <<"a", "r", "t", "i", "s", "t", ":">>, <<>>)))]
        ELSE [title |-> <<>>, artist |-> query]

\* spotify_utils.py line 21-32: search_track asks the catalog unless both
\* arguments are empty
search_track_asks(title, artist) == title # <<>> \/ artist # <<>>

\* str.split("\n") and "\n".join
RECURSIVE SplitLines(_)
SplitLines(text) ==
    IF NoNewline(text) THEN <<text>>
    ELSE LET n == CHOOSE i \in 1..Len(text) :
                      text[i] = "\n" /\ NoNewline(SubSeq(text, 1, i - 1))
         IN  <<SubSeq(text, 1, n - 1)>> \o SplitLines(SubSeq(text, n + 1, Len(text)))

RECURSIVE JoinLines(_)
JoinLines(ls) ==
    IF ls = <<>> THEN <<>>
    ELSE IF Len(ls) = 1 THEN ls[1]
    ELSE ls[1] \o <<"\n">> \o JoinLines(Tail(ls))

\* gpt_utils.py lines 261-267: the line get_sample_suggestions makes of its
\* i-th query
suggestion_line(i, query) ==
    LET by == IF IsSubstr(<<"a", "r", "t", "i", "s", "t", ":">>, query)
              THEN StripQuotes(Replace(query, <<"a", "r", "t", "i", "s", "t", ":">>, <<>>))
              ELSE query
    IN  Digits(i) \o <<".", " ", "\"", "S", "a", "m", "p", "l", "e", " ", "T", "r", "a", "c", "k", " ">> \o Digits(i) \o <<"\"", " ", "b", "y", " ">> \o by

\* gpt_utils.py lines 259-273: the text made of what line 257 returned or
\* raised
suggestion_text(got) ==
    IF got.exc # ""
    THEN <<"1", ".", " ", "\"", "S", "a", "m", "p", "l", "e", " ", "T", "r", "a", "c", "k", "\"", " ", "b", "y", " ", "V", "a", "r", "i", "o", "u", "s", " ", "A", "r", "t", "i", "s", "t", "s", "\n", "2", ".", " ", "\"", "S", "a", "m", "p", "l", "e", " ", "T", "r", "a", "c", "k", " ", "2", "\"", " ", "b", "y", " ", "V", "a", "r", "i", "o", "u", "s", " ", "A", "r", "t", "i", "s", "t", "s">>
    ELSE JoinLines([i \in 1..Min(5, Len(got.val.all_queries)) |->
                       suggestion_line(i, got.val.all_queries[i])])

\* gpt_utils.py lines 254-273: get_sample_suggestions never raises
get_sample_suggestions(prompt, now, completion) ==
    suggestion_text(get_ai_powered_recommendations(prompt, None, now, completion))

\* routes.py line 141: re.match(r'^\d+\.\s*["](.+?)["]\s+by\s+(.+)$', line.strip())
RECURSIVE LeadingDigits(_)
LeadingDigits(s) == IF s # <<>> /\ IsDigit(Head(s)) THEN 1 + LeadingDigits(Tail(s)) ELSE 0

legacy_line_match(line) ==
    LET s == Strip(line)
        d == LeadingDigits(s)
        after_dot == SubSeq(s, d + 2, Len(s))
        q == Len(s) - Len(LStrip(after_dot)) + 1
    IN  IF d = 0 \/ Len(s) < d + 1 \/ s[d + 1] # "." THEN None
        ELSE QuotedBy(s, q)

CatalogKinds == {"empty", "rich", "single", "mixed", "legacy_only", "flaky"}

\* tracks with distinct, successive ids
Batch(first, size) == [j \in 1..size |-> BigTrack(first + j - 1, 1)]

\* what the k-th call of search_tracks_enhanced(query, limit=10), or of
\* search_spotify_tracks(query, limit=10), returns: at most ten tracks, and
\* successive answers share tracks
catalog_rows(catalog, k) ==
    CASE catalog \in {"rich", "flaky"} -> Batch(3 * (k - 1) + 1, 5)
      [] catalog = "mixed" -> IF k % 3 = 0 THEN <<>>
                              ELSE IF k <= 2 THEN Batch(5 * (k - 1) + 1, 10)
                              ELSE Batch(3 * (k - 1) + 1, 5)
      [] OTHER -> <<>>

\* what the k-th request to the catalog for a list of tracks comes to: the
\* flaky catalog fails every second one, by transport or by authentication
sp_search(catalog, k) ==
    IF catalog = "flaky" /\ k % 2 = 0
    THEN Raise(IF k % 4 = 0 THEN "SpotifyOauthError" ELSE "ConnectionError")
    ELSE Return(catalog_rows(catalog, k))

\* spotify_utils.py lines 51-65, and app.py lines 306-342 alike: the try
\* around the request, and the empty list returned from the except
search_tracks_general(outcome) == IF outcome.exc # "" THEN <<>> ELSE outcome.val

enhanced_answer(catalog, k) == search_tracks_general(sp_search(catalog, k))

\* whether the k-th request of search_track to the catalog raises
sp_search_one_raises(catalog, k) == catalog = "flaky"

\* what the k-th call of search_track(title, artist) returns; None from the
\* except of lines 43-45 when the request raises
single_answer(catalog, title, artist, k) ==
    IF ~search_track_asks(title, artist) THEN None
    ELSE IF sp_search_one_raises(catalog, k) THEN None
    ELSE CASE catalog = "single" -> Some(T_premier)
           [] catalog = "mixed" -> Some(T_no_id)
           [] catalog = "legacy_only" -> IF title # <<>> THEN Some(BigTrack(k, 1)) ELSE None
           [] OTHER -> None

\* the locals of the handler, and what the request has asked of the catalog:
\* asked counts the searches issued, found those that returned something,
\* analysed tells whether get_ai_powered_recommendations was called,
\* had_at_last_search is len(all_tracks) when the search loop last searched,
\* failed counts the catalog requests that raised
Frame0 ==
    [analysis |-> JNull, search_queries |-> <<>>, used_seed |-> None,
     idx |-> 1, all_tracks |-> <<>>, search_count |-> 0, track_calls |-> 0,
     asked |-> 0, found |-> 0, caught |-> "", legacy |-> "", ranked |-> FALSE,
     analysed |-> FALSE, had_at_last_search |-> 0, failed |-> 0]

Response0 ==
    [status |-> 0, error |-> "", has_tracks |-> FALSE, tracks |-> <<>>, mode |-> "",
     total_found |-> 0, queries_used |-> <<>>, refresh_seed |-> None,
     analysis |-> JNull, is_refresh |-> FALSE, era |-> JNull]

ErrorResponse(status, error) == [Response0 EXCEPT !.status = status, !.error = error]

\* an exception that leaves the view function: Flask answers 500
Unhandled(exc) == ErrorResponse(500, exc)

SeedOf(j) == IF j.k = "int" THEN Some(j.v) ELSE None

\* f"{prompt.strip()} in a {era} style"
full_prompt_of(prompt, era) == Strip(prompt.v) \o <<" ", "i", "n", " ", "a", " ">> \o Fmt(era) \o <<" ", "s", "t", "y", "l", "e">>

\* x[:3] of a decoded list or string
Take3(j) == IF j.k = "list" THEN JList(SubSeq(j.v, 1, Min(3, Len(j.v))))
            ELSE JStr(SubSeq(j.v, 1, Min(3, Len(j.v))))

RequestBodies ==
    { JNull,
      JDict(<<>>),
      JDict("prompt" :> JStr(<<"9", "0", "s", " ", "b", "o", "o", "m", " ", "b", "a", "p", " ", "d", "r", "u", "m", "s">>)),
      JDict(("prompt" :> JStr(<<"9", "0", "s", " ", "b", "o", "o", "m", " ", "b", "a", "p", " ", "d", "r", "u", "m", "s">>)) @@ ("refresh_seed" :> JInt(42))),
      JDict(("prompt" :> JStr(<<"d", "a", "r", "k", " ", "a", "m", "b", "i", "e", "n", "t">>)) @@ ("refresh_seed" :> JInt(0))
            @@ ("era" :> JStr(<<"7", "0", "s">>))),
      JDict(("prompt" :> JStr(<<"\"", "J", "u", "i", "c", "y", "\"", " ", "b", "y", " ", "B", "i", "g", "g", "i", "e">>)) @@ ("refresh_seed" :> JInt(42))),
      JDict("prompt" :> JStr(<<" ", " ", " ">>)),
      JDict("prompt" :> JInt(7)),
      JDict("prompt" :> JNull),
      JDict(("prompt" :> JStr(<<>>)) @@ ("era" :> JStr(<<"7", "0", "s">>))) }

Init ==
    /\ rng \in Entropy
    /\ hashSalt = 0
    /\ pc = "request"
    /\ in_prompt = <<>>
    /\ in_seed = None
    /\ in_analysis = JNull
    /\ in_tracks = <<>>
    /\ runs = <<>>
    /\ env \in [handler : {"routes", "app", "refresh", "clear_cache"}, api_key : BOOLEAN,
                 catalog : CatalogKinds]
    /\ env.handler \in {"routes", "refresh"} => env.api_key
    /\ request \in RequestBodies
    /\ frame = Frame0
    /\ response = Response0
    /\ previous_results_cache = <<>>

\* routes.py lines 13-47: read the request, analyse, generate the queries
RoutesRecommend ==
    /\ pc = "request"
    /\ env.handler = "routes"
    /\ LET data == request
           prompt == DictGet(data, "prompt", JNull)
           era == DictGet(data, "era", JStr(<<"v", "i", "n", "t", "a", "g", "e">>))
           refresh_seed == SeedOf(DictGet(data, "refresh_seed", JNull))
       IN  IF data.k # "dict"
           THEN /\ response' = Unhandled("AttributeError")
                /\ pc' = "done"
                /\ UNCHANGED <<rng, frame>>
           ELSE IF ~Truthy(prompt)
           THEN /\ response' = ErrorResponse(400, "Prompt required")
                /\ pc' = "done"
                /\ UNCHANGED <<rng, frame>>
           ELSE IF prompt.k # "str"
           THEN \* line 32 raises, line 125 catches
                /\ frame' = [frame EXCEPT !.caught = "outer"]
                /\ pc' = "legacy"
                /\ UNCHANGED <<rng, response>>
           ELSE \E completion \in Completions, now \in ClockValues :
                \E got \in {get_ai_powered_recommendations(
                                full_prompt_of(prompt, era), refresh_seed, now, completion)} :
                   /\ rng' \in Entropy
                   /\ IF got.exc # ""
                      THEN /\ frame' = [frame EXCEPT !.caught = "stages", !.analysed = TRUE]
                           /\ pc' = "legacy"
                      ELSE /\ frame' = [frame EXCEPT
                                           !.analysed = TRUE,
                                           !.analysis = got.val.analysis,
                                           !.search_queries = got.val.all_queries,
                                           !.used_seed = got.val.refresh_seed]
                           /\ pc' = "search"
                   /\ UNCHANGED response
    /\ UNCHANGED <<hashSalt, previous_results_cache, in_prompt, in_seed, in_analysis, in_tracks, runs, env, request>>

SearchLimit == 8
ThresholdPlain == 20
ThresholdRefresh == 30

\* routes.py lines 52-95: one pass of the search loop
RoutesSearch ==
    /\ pc = "search"
    /\ LET k == frame.idx
           queries == SubSeq(frame.search_queries, 1, Min(SearchLimit, Len(frame.search_queries)))
           refresh_seed == DictGet(request, "refresh_seed", JNull)
       IN  IF k > Len(queries)
           THEN /\ pc' = "collect"
                /\ UNCHANGED frame
           ELSE LET query == queries[k]
                    tracks == enhanced_answer(env.catalog, k)
                    args == fallback_search_args(query)
                    asks == search_track_asks(args.title, args.artist)
                    track_data == single_answer(env.catalog, args.title, args.artist,
                                                frame.track_calls + 1)
                    all_tracks == IF tracks # <<>> THEN frame.all_tracks \o tracks
                                  ELSE IF track_data # None
                                  THEN Append(frame.all_tracks, track_data[1])
                                  ELSE frame.all_tracks
                    enough == /\ tracks = <<>>
                              /\ Len(all_tracks) >= (IF Truthy(refresh_seed)
                                                     THEN ThresholdRefresh
                                                     ELSE ThresholdPlain)
                IN  /\ frame' = [frame EXCEPT
                                    !.idx = k + 1,
                                    !.all_tracks = all_tracks,
                                    !.search_count = @ + 1,
                                    !.had_at_last_search = Len(frame.all_tracks),
                                    !.failed = @ + (IF sp_search(env.catalog, k).exc # ""
                                                    THEN 1 ELSE 0)
                                                 + (IF /\ tracks = <<>> /\ asks
                                                       /\ sp_search_one_raises(
                                                              env.catalog, frame.track_calls + 1)
                                                    THEN 1 ELSE 0),
                                    !.track_calls = IF tracks = <<>> THEN @ + 1 ELSE @,
                                    !.asked = @ + 1 + (IF tracks = <<>> /\ asks THEN 1 ELSE 0),
                                    !.found = @ + (IF tracks # <<>> \/ track_data # None
                                                   THEN 1 ELSE 0)]
                    /\ pc' = IF enough \/ k = Len(queries) THEN "collect" ELSE "search"
    /\ UNCHANGED <<rng, hashSalt, previous_results_cache, in_prompt, in_seed, in_analysis, in_tracks, runs,
                   env, request, response>>

\* mutant of RoutesCollect: no fallback on an empty accumulation
RoutesCollect_no_fallback ==
    /\ pc = "collect"
    /\ response' = [Response0 EXCEPT
                       !.status = 200, !.has_tracks = TRUE, !.tracks = frame.all_tracks,
                       !.total_found = Len(frame.all_tracks), !.mode = "enhanced"]
    /\ pc' = "done"
    /\ UNCHANGED <<rng, hashSalt, previous_results_cache, in_prompt, in_seed, in_analysis, in_tracks, runs,
                   env, request, frame>>

\* routes.py lines 97-119: fall back on nothing found, else answer
RoutesCollect ==
    /\ pc = "collect"
    /\ IF frame.all_tracks = <<>>
       THEN /\ pc' = "legacy"
            /\ UNCHANGED response
       ELSE /\ response' =
                 [Response0 EXCEPT
                     !.status = 200,
                     !.has_tracks = TRUE,
                     !.tracks = frame.all_tracks,
                     !.total_found = Len(frame.all_tracks),
                     !.queries_used = SubSeq(frame.search_queries, 1,
                                             Min(frame.search_count, Len(frame.search_queries))),
                     !.refresh_seed = frame.used_seed,
                     !.analysis =
                         [style_description |->
                              DictGet(frame.analysis, "style_description", JStr(<<>>)),
                          approach |->
                              DictGet(frame.analysis, "analysis_approach", JStr(<<"d", "e", "f", "a", "u", "l", "t">>)),
                          pioneer_artists |->
                              Take3(DictGet(frame.analysis, "pioneer_artists", JList(<<>>))),
                          contemporary_artists |->
                              Take3(DictGet(frame.analysis, "contemporary_artists", JList(<<>>)))],
                     !.is_refresh = Truthy(DictGet(request, "refresh_seed", JNull)),
                     !.era = DictGet(request, "era", JStr(<<"v", "i", "n", "t", "a", "g", "e">>)),
                     !.mode = "enhanced"]
            /\ pc' = "done"
    /\ UNCHANGED <<rng, hashSalt, previous_results_cache, in_prompt, in_seed, in_analysis, in_tracks, runs,
                   env, request, frame>>

\* mutant of legacy_loop: line 147 left out, whatever search_track returns
\* is appended
RECURSIVE legacy_loop_no_check(_, _, _, _)
legacy_loop_no_check(lines, n, catalog, calls) ==
    IF n = 0 THEN [track_list |-> <<>>, calls |-> calls, asked |-> 0, found |-> 0]
    ELSE LET before == legacy_loop_no_check(lines, n - 1, catalog, calls)
             match == legacy_line_match(lines[n])
         IN  IF match = None THEN before
             ELSE LET track_data == single_answer(catalog, match[1].title, match[1].artist,
                                                  before.calls + 1)
                  IN  [track_list |-> Append(before.track_list, track_data),
                       calls |-> before.calls + 1,
                       asked |-> before.asked + 1,
                       found |-> before.found + (IF track_data # None THEN 1 ELSE 0)]

\* routes.py lines 140-150: the first n lines parsed and looked up
RECURSIVE legacy_loop(_, _, _, _)
legacy_loop(lines, n, catalog, calls) ==
    IF n = 0 THEN [track_list |-> <<>>, calls |-> calls, asked |-> 0, found |-> 0]
    ELSE LET before == legacy_loop(lines, n - 1, catalog, calls)
             match == legacy_line_match(lines[n])
         IN  IF match = None THEN before
             ELSE LET title == match[1].title
                      artist == match[1].artist
                      track_data == single_answer(catalog, title, artist, before.calls + 1)
                  IN  [track_list |-> IF track_data # None
                                      THEN Append(before.track_list, track_data[1])
                                      ELSE before.track_list,
                       calls |-> before.calls + 1,
                       asked |-> before.asked + (IF search_track_asks(title, artist)
                                                 THEN 1 ELSE 0),
                       found |-> before.found + (IF track_data # None THEN 1 ELSE 0)]

\* routes.py lines 137-150: the text split into lines, each parsed and
\* looked up
legacy_lookup(raw_response, catalog, calls) ==
    LET lines == SplitLines(Strip(raw_response))
    IN  legacy_loop(lines, Len(lines), catalog, calls)

\* mutant of RoutesLegacy: a legacy pipeline that has raised is entered a
\* second time before the error is answered
RoutesLegacy_retried ==
    /\ pc = "legacy"
    /\ LET prompt == DictGet(request, "prompt", JNull)
           era == DictGet(request, "era", JStr(<<"v", "i", "n", "t", "a", "g", "e">>))
       IN  IF prompt.k # "str"
           THEN \* line 133 raises, line 158 catches
                /\ response' = IF frame.legacy = "" THEN response
                                ELSE ErrorResponse(500, "Search failed. Please try again.")
                /\ frame' = [frame EXCEPT !.legacy = "raised"]
                /\ pc' = IF frame.legacy = "" THEN "legacy" ELSE "done"
                /\ UNCHANGED rng
           ELSE \E completion \in Completions, now \in ClockValues :
                \E looked \in {legacy_lookup(
                                   get_sample_suggestions(full_prompt_of(prompt, era),
                                                          now, completion),
                                   env.catalog, frame.track_calls)} :
                   /\ rng' \in Entropy
                   /\ response' = [Response0 EXCEPT
                                      !.status = 200, !.has_tracks = TRUE,
                                      !.tracks = looked.track_list,
                                      !.mode = "legacy", !.era = era]
                   /\ frame' = [frame EXCEPT
                                   !.legacy = "returned",
                                   !.track_calls = looked.calls,
                                   !.asked = @ + looked.asked,
                                   !.failed = @ + (IF sp_search_one_raises(env.catalog, 1)
                                                   THEN looked.asked ELSE 0),
                                   !.found = @ + looked.found]
                   /\ pc' = "done"
    /\ UNCHANGED <<hashSalt, previous_results_cache, in_prompt, in_seed, in_analysis, in_tracks, runs, env, request>>

\* routes.py lines 130-163: recommend_legacy_internal
RoutesLegacy ==
    /\ pc = "legacy"
    /\ LET prompt == DictGet(request, "prompt", JNull)
           era == DictGet(request, "era", JStr(<<"v", "i", "n", "t", "a", "g", "e">>))
       IN  IF prompt.k # "str"
           THEN \* line 133 raises, line 158 catches
                /\ response' = ErrorResponse(500, "Search failed. Please try again.")
                /\ frame' = [frame EXCEPT !.legacy = "raised"]
                /\ UNCHANGED rng
           ELSE \E completion \in Completions, now \in ClockValues :
                \E looked \in {legacy_lookup(
                                   get_sample_suggestions(full_prompt_of(prompt, era),
                                                          now, completion),
                                   env.catalog, frame.track_calls)} :
                   /\ rng' \in Entropy
                   /\ response' = [Response0 EXCEPT
                                      !.status = 200, !.has_tracks = TRUE,
                                      !.tracks = looked.track_list,
                                      !.mode = "legacy", !.era = era]
                   /\ frame' = [frame EXCEPT
                                   !.legacy = "returned",
                                   !.track_calls = looked.calls,
                                   !.asked = @ + looked.asked,
                                   !.failed = @ + (IF sp_search_one_raises(env.catalog, 1)
                                                   THEN looked.asked ELSE 0),
                                   !.found = @ + looked.found]
    /\ pc' = "done"
    /\ UNCHANGED <<hashSalt, previous_results_cache, in_prompt, in_seed, in_analysis, in_tracks, runs, env, request>>

\* mutant of app_search_loop: a search that comes back empty empties what
\* was accumulated
RECURSIVE app_search_loop_discards(_, _)
app_search_loop_discards(n, catalog) ==
    IF n = 0 THEN [all_tracks |-> <<>>, successful_searches |-> 0, had_at_last_search |-> 0,
                   failed |-> 0]
    ELSE LET before == app_search_loop_discards(n - 1, catalog)
             tracks == enhanced_answer(catalog, n)
             failed == before.failed + (IF sp_search(catalog, n).exc # "" THEN 1 ELSE 0)
         IN  [all_tracks |-> IF tracks # <<>> THEN before.all_tracks \o tracks ELSE <<>>,
              successful_searches |-> before.successful_searches
                                      + (IF tracks # <<>> THEN 1 ELSE 0),
              had_at_last_search |-> Len(before.all_tracks),
              failed |-> failed]

\* app.py lines 278-283: the first n queries searched
RECURSIVE app_search_loop(_, _)
app_search_loop(n, catalog) ==
    IF n = 0 THEN [all_tracks |-> <<>>, successful_searches |-> 0, had_at_last_search |-> 0,
                   failed |-> 0]
    ELSE LET before == app_search_loop(n - 1, catalog)
             tracks == enhanced_answer(catalog, n)
             failed == before.failed + (IF sp_search(catalog, n).exc # "" THEN 1 ELSE 0)
         IN  IF tracks # <<>>
             THEN [all_tracks |-> before.all_tracks \o tracks,
                   successful_searches |-> before.successful_searches + 1,
                   had_at_last_search |-> Len(before.all_tracks),
                   failed |-> failed]
             ELSE [before EXCEPT !.had_at_last_search = Len(before.all_tracks),
                                 !.failed = failed]

\* app.py lines 287-297: what the wrapper returns once the searches are
\* done and, if anything was found, the Ranker has returned or raised
wrapper_return(all_tracks, filtered) ==
    IF all_tracks # <<>> /\ filtered.exc = ""
    THEN [i \in 1..Len(filtered.val.order) |-> all_tracks[filtered.val.order[i]]] \o <<>>
    ELSE <<>>

\* app.py lines 285-297: the wrapper's result and locals, from what the
\* search loop accumulated and what the Ranker did with it.  The Ranker is
\* not called on an empty accumulation (line 287).
wrapper_ranked(got, searched, filtered) ==
    [recommendations |-> wrapper_return(searched.all_tracks, filtered),
     frame |-> [Frame0 EXCEPT
                   !.analysed = TRUE,
                   !.analysis = got.val.analysis,
                   !.search_queries = got.val.all_queries,
                   !.used_seed = got.val.refresh_seed,
                   !.idx = Min(SearchLimit, Len(got.val.all_queries)) + 1,
                   !.all_tracks = searched.all_tracks,
                   !.search_count = searched.successful_searches,
                   !.asked = Min(SearchLimit, Len(got.val.all_queries)),
                   !.found = searched.successful_searches,
                   !.had_at_last_search = searched.had_at_last_search,
                   !.failed = searched.failed,
                   !.caught = IF searched.all_tracks # <<>> /\ filtered.exc # ""
                              THEN "wrapper" ELSE "",
                   !.ranked = searched.all_tracks # <<>> /\ filtered.exc = ""]]

wrapper_searched(got, searched, prompt, refresh_seed) ==
    wrapper_ranked(got, searched,
                   ai_filter_and_rank_tracks(searched.all_tracks, prompt,
                                             got.val.analysis, refresh_seed))

\* app.py lines 263-302: get_ai_powered_recommendations_wrapper, from what
\* line 271 returned or raised.  It never raises.
wrapper_outcome(got, prompt, refresh_seed, catalog) ==
    IF got.exc # ""
    THEN [recommendations |-> <<>>, frame |-> [Frame0 EXCEPT !.caught = "wrapper", !.analysed = TRUE]]
    ELSE wrapper_searched(
             got, app_search_loop(Min(SearchLimit, Len(got.val.all_queries)), catalog),
             prompt, refresh_seed)

\* app.py lines 216-249: get_recommendations
AppRecommend ==
    /\ pc = "request"
    /\ env.handler = "app"
    /\ LET data == request
           prompt_field == DictGet(data, "prompt", JStr(<<>>))
           refresh_seed == SeedOf(DictGet(data, "refresh_seed", JNull))
       IN  IF ~env.api_key
           THEN /\ response' = ErrorResponse(500, "AI functionality disabled")
                /\ UNCHANGED <<rng, frame>>
           ELSE IF ~Truthy(data)
           THEN /\ response' = ErrorResponse(400, "No JSON data provided")
                /\ UNCHANGED <<rng, frame>>
           ELSE IF prompt_field.k # "str"
           THEN \* line 231 raises, line 247 catches
                /\ response' = ErrorResponse(500, "Failed to get AI recommendations")
                /\ frame' = [frame EXCEPT !.caught = "outer"]
                /\ UNCHANGED rng
           ELSE IF Strip(prompt_field.v) = <<>>
           THEN /\ response' = ErrorResponse(400, "No prompt provided")
                /\ UNCHANGED <<rng, frame>>
           ELSE \E completion \in Completions, now \in ClockValues :
                \E out \in {wrapper_outcome(
                                get_ai_powered_recommendations(Strip(prompt_field.v),
                                                               refresh_seed, now, completion),
                                Strip(prompt_field.v), refresh_seed, env.catalog)} :
                   /\ rng' \in Entropy
                   /\ response' = [Response0 EXCEPT
                                      !.status = 200, !.has_tracks = TRUE,
                                      !.tracks = out.recommendations]
                   /\ frame' = out.frame
    /\ pc' = "done"
    /\ UNCHANGED <<hashSalt, previous_results_cache, in_prompt, in_seed, in_analysis, in_tracks, runs, env, request>>

\* routes.py lines 180-207: refresh_recommendations.  Line 196 writes the new
\* seed into the parsed body, which is the object request.json returns; line
\* 200 assigns to request.json, a read-only property of the request object,
\* which raises AttributeError, so recommend() on line 202 is not reached
\* and the exception leaves the view.  ClockMillis are values of
\* int(time.time() * 1000), which is nonzero.
ClockMillis == {1700000000, 1700000999}

RoutesRefresh ==
    /\ pc = "request"
    /\ env.handler = "refresh"
    /\ LET data == request
           prompt == DictGet(data, "prompt", JNull)
       IN  IF data.k # "dict"
           THEN /\ response' = Unhandled("AttributeError")
                /\ UNCHANGED request
           ELSE IF ~Truthy(prompt)
           THEN /\ response' = ErrorResponse(400, "Prompt required")
                /\ UNCHANGED request
           ELSE \E refresh_seed \in ClockMillis :
                   /\ request' = JDict(("refresh_seed" :> JInt(refresh_seed)) @@ data.v)
                   /\ response' = Unhandled("AttributeError")
    /\ pc' = "done"
    /\ UNCHANGED <<rng, hashSalt, previous_results_cache, in_prompt, in_seed, in_analysis, in_tracks, runs, env, frame>>

\* a clear_cache that leaves an entry behind
clear_cache_keeps(cache) == [k \in DOMAIN cache \cup {1} |-> "kept"]

\* gpt_utils.py lines 247-251: clear_cache empties the dict in place
clear_cache(cache) == [k \in {} |-> cache[k]] \o <<>>

\* routes.py lines 209-219 and app.py lines 251-261: clear_recommendation_cache.
\* It reads nothing of the request; clear_cache raises nothing, so the
\* except branch with status 500 is not taken.
ClearRecommendationCache ==
    /\ pc = "request"
    /\ env.handler = "clear_cache"
    /\ previous_results_cache' = clear_cache(previous_results_cache)
    /\ response' = [Response0 EXCEPT !.status = 200]
    /\ pc' = "done"
    /\ UNCHANGED <<rng, hashSalt, in_prompt, in_seed, in_analysis, in_tracks, runs,
                   env, request, frame>>

Next ==
    \/ RoutesRecommend \/ RoutesSearch \/ RoutesCollect \/ RoutesLegacy \/ AppRecommend
    \/ RoutesRefresh \/ ClearRecommendationCache

Spec == Init /\ [][Next]_vars

\* C5: the tracks of every enhanced-mode /recommend response are what the
\* Ranker returns for the tracks the search loop accumulated: at most 20
\* tracks, no two with the same id.
C5_EnhancedTracksAreRankerOutput ==
    (pc = "done" /\ (response.mode = "enhanced" \/ frame.ranked)) =>
        LET ranked == ai_filter_and_rank_tracks(
                          frame.all_tracks, <<>>, frame.analysis,
                          SeedOf(DictGet(request, "refresh_seed", JNull)))
        IN  /\ ranked.exc = ""
            /\ response.tracks = [i \in 1..Len(ranked.val.order) |->
                                      frame.all_tracks[ranked.val.order[i]]]
            /\ Len(response.tracks) <= RankLimit
            /\ \A i, j \in 1..Len(response.tracks) :
                  i # j => ~SameId(response.tracks[i], response.tracks[j])

\* whether the enhanced pipeline of routes.py came to nothing: the stages
\* raised, or the search loop ran and accumulated no track
StagesRaised == frame.caught = "stages"
LoopFoundNothing == frame.caught = "" /\ frame.idx > 1 /\ frame.all_tracks = <<>>

\* C6: in the /recommend handler of routes.py, when analysis or query
\* generation raises, or the search loop ends with no track accumulated, the
\* response is the legacy pipeline's: mode 'legacy' when it returns, and a 500
\* error body when the legacy pipeline itself raises.
C6_FallsBackToLegacy ==
    (pc = "done" /\ env.handler = "routes") =>
        /\ (StagesRaised \/ LoopFoundNothing) => frame.legacy # ""
        /\ frame.legacy = "returned" =>
              response.status = 200 /\ response.mode = "legacy" /\ response.has_tracks
        /\ frame.legacy = "raised" =>
              response.status = 500 /\ response.error # "" /\ ~response.has_tracks

\* the stages raised on an answer of the completion API and the legacy
\* pipeline answered
C6_Witness ==
    /\ pc = "done" /\ env.handler = "routes"
    /\ StagesRaised
    /\ frame.legacy = "returned"
    /\ response.mode = "legacy"

\* C7: when every catalog search issued for a /recommend request, those of
\* the fallback path included, returns nothing, the handler does not raise
\* and its response carries an empty track list.
C7_EmptyCatalogEmptyTracks ==
    (pc = "done" /\ frame.asked > 0 /\ frame.found = 0) =>
        /\ response.status = 200
        /\ response.has_tracks
        /\ response.tracks = <<>>

\* the eight enhanced searches, their fallback searches and the searches of
\* the legacy pipeline were all issued and all came back empty
C7_Witness ==
    /\ pc = "done" /\ env.handler = "routes"
    /\ frame.asked > 2 * SearchLimit
    /\ frame.found = 0
    /\ frame.legacy = "returned"
    /\ response.tracks = <<>>

\* a body that is a JSON object and has no prompt: the key is absent, or its
\* value is null or the empty string
NoPrompt(body) ==
    /\ body.k = "dict"
    /\ \/ "prompt" \notin DOMAIN body.v
       \/ body.v["prompt"] = JNull
       \/ body.v["prompt"] = JStr(<<>>)

\* C13: a /recommend request whose JSON body has no prompt (absent, null or
\* empty) is answered 400, and neither the Prompt Analyzer, nor the catalog,
\* nor the legacy pipeline is invoked for it.  Stated for a service whose
\* completion API key is configured.
C13_NoPromptIs400 ==
    (pc = "done" /\ env.handler \in {"routes", "app"} /\ env.api_key
                 /\ NoPrompt(request)) =>
        /\ response.status = 400
        /\ ~frame.analysed
        /\ frame.asked = 0
        /\ frame.legacy = ""

\* the accumulation threshold the request's search loop is to stop at
StopThreshold ==
    IF request.k = "dict" /\ DictGet(request, "refresh_seed", JNull) # JNull
    THEN ThresholdRefresh ELSE ThresholdPlain

\* the search loop of the request has issued a catalog search
LoopSearched == frame.idx > 1

\* C15: in the /recommend search loop no catalog search is issued once the
\* accumulated tracks have reached the threshold (20 without a refresh seed,
\* 30 with one), and at most the first 8 generated queries are searched.
C15_StopsAtThreshold ==
    LoopSearched =>
        /\ frame.had_at_last_search < StopThreshold
        /\ frame.idx - 1 <= 8

\* what the catalog returned to the first n searches that did not fail, in
\* the order of the searches
RECURSIVE ReturnedRows(_, _)
ReturnedRows(catalog, n) ==
    IF n = 0 THEN <<>>
    ELSE ReturnedRows(catalog, n - 1)
         \o (IF sp_search(catalog, n).exc = "" THEN sp_search(catalog, n).val ELSE <<>>)

StepsLeft ==
    CASE pc = "request" -> SearchLimit + 4
      [] pc = "search" -> SearchLimit + 3 - frame.idx
      [] pc = "collect" -> 2
      [] pc = "legacy" -> 1
      [] OTHER -> 0

\* C17: for one /recommend request the legacy pipeline is entered at most
\* once, nothing is tried after it has failed, and the request ends with
\* exactly one response: every step of the handler starts where the legacy
\* pipeline has not ended and no response is given, and brings the end
\* nearer by at least one of a bounded number of steps; the end of the legacy
\* pipeline ends the request; and the request has its response exactly when
\* it has ended.
C17_OneLegacyOneResponse ==
    /\ [][frame.legacy = "" /\ response.status = 0 /\ StepsLeft' < StepsLeft]_vars
    /\ [](frame.legacy # "" => pc = "done")
    /\ [](pc = "done" <=> response.status # 0)
    /\ [](StepsLeft >= 0)

\* the legacy pipeline raised, after the enhanced pipeline had raised, and
\* the request was answered with the error
C17_Witness ==
    /\ pc = "done" /\ env.handler = "routes"
    /\ frame.caught = "outer"
    /\ frame.legacy = "raised"
    /\ response.status = 500

\* C19: POST /refresh runs the /recommend pipeline under a newly made
\* millisecond-timestamp seed that replaces the caller's refresh_seed: a
\* request with a prompt is answered with the /recommend response, made in
\* refresh mode (is_refresh true when the mode is enhanced), and a request
\* without a prompt is answered 400.
C19_RefreshIsRecommendWithNewSeed ==
    (pc = "done" /\ env.handler = "refresh" /\ request.k = "dict") =>
        IF NoPrompt(request)
        THEN response.status = 400
        ELSE /\ DictGet(request, "refresh_seed", JNull) \in {JInt(ms) : ms \in ClockMillis}
             /\ response.status = 200
             /\ response.mode \in {"enhanced", "legacy"}
             /\ response.mode = "enhanced" => response.is_refresh

LoopEnded ==
    \/ pc = "collect"
    \/ pc = "done" /\ env.handler = "app" /\ LoopSearched

\* the queries the search loop has taken from the list and searched for
QueriesIssued == SubSeq(frame.search_queries, 1, frame.idx - 1)

\* C22: at the end of the /recommend search loop the search counter equals
\* the number of issued catalog searches that returned at least one track,
\* and queries_used in the response lists exactly the queries that were
\* issued.
C22_CounterCountsNonEmptySearches ==
    /\ LoopEnded => frame.search_count = frame.found
    /\ (pc = "done" /\ response.mode = "enhanced") => response.queries_used = QueriesIssued

\* the request carries refresh_seed 0, and the pipeline has returned for it
SeedZeroAnalysed ==
    /\ request.k = "dict"
    /\ DictGet(request, "refresh_seed", JNull) = JInt(0)
    /\ frame.analysed /\ frame.analysis # JNull

\* the prompt the handler hands to the pipeline
PipelinePrompt ==
    IF env.handler = "routes"
    THEN full_prompt_of(DictGet(request, "prompt", JNull),
                        DictGet(request, "era", JStr(<<"v", "i", "n", "t", "a", "g", "e">>)))
    ELSE Strip(DictGet(request, "prompt", JStr(<<>>)).v)

\* the query lists the pipeline can return for the analysis at hand when no
\* seed is supplied, one for each reading of the clock
NoSeedQueryLists ==
    {get_ai_powered_recommendations(
         PipelinePrompt, None, now, [kind |-> "json", value |-> frame.analysis]).val.all_queries :
       now \in ClockValues}

\* C26: a caller-supplied refresh_seed of 0 is treated as a present seed
\* only by persona selection, which draws the persona from the generator
\* seeded with 0; query shuffling, ranking jitter, the accumulation
\* threshold (20) and the is_refresh flag (false) treat it exactly as if no
\* seed had been supplied: the query list is one a request without a seed
\* can get, the ranking is the one computed without a seed, the loop does
\* not go on from a fallback search that left 20 tracks or more, and
\* is_refresh is false.
C26_SeedZeroSeedsPersonaOnly ==
    SeedZeroAnalysed =>
        /\ frame.used_seed = Some(0)
        /\ frame.analysis \notin DecodedValues =>
               frame.analysis =
                   create_fallback_analysis(
                       PipelinePrompt,
                       analysis_variations[RandBelow(Seeded(0), Len(analysis_variations)) + 1]).val
        /\ frame.search_queries \in NoSeedQueryLists
        /\ frame.ranked =>
               \E ranked \in {ai_filter_and_rank_tracks(frame.all_tracks, <<>>,
                                                        frame.analysis, None)} :
                   response.tracks = [i \in 1..Len(ranked.val.order) |->
                                         frame.all_tracks[ranked.val.order[i]]]
        /\ (pc = "search" /\ LoopSearched
               /\ enhanced_answer(env.catalog, frame.idx - 1) = <<>>) =>
               Len(frame.all_tracks) < ThresholdPlain
        /\ (pc = "done" /\ response.mode = "enhanced") => ~response.is_refresh

====
